---- MODULE Spec2Model ----
(***************************************************************************)
(* Model of the auction-sheet parser backend/services/parser.py and of the *)
(* upload handler backend/api/upload.py that calls it.                     *)
(*                                                                         *)
(* A Python str is a sequence of one-character strings; None, where the    *)
(* code tells it from "", is the value None below.  The alphabet is the    *)
(* set of characters of the source's own tables and of the catalogues of   *)
(* cells, rows and texts defined further down.  An ASCII or katakana       *)
(* (U+30A0..U+30FF) character is written as itself, any other character by *)
(* its code point, "U+4E09" for 三.                                        *)
(*                                                                         *)
(* Spec      one upload request: upload_pdf and parse_auction_sheet, step  *)
(*           by step, on the documents of Documents.                       *)
(* SpecTable the table loop of parse_auction_sheet on one table of         *)
(*           TableFamily.                                                  *)
(* SpecRows  is_fragment_row, explode_stacked_row and merge_fragment_row   *)
(*           applied to rows of catalogued cells.                          *)
(* SpecSalvage  the maker salvage: salvage_maker_from_row_cells,           *)
(*           _complete_maker_prefix and the car-name prefix split, applied *)
(*           to catalogued rows, windows and vehicles.                     *)
(* SpecCoerce  z2h, to_int_or_none, parse_mileage_km, the year of a row    *)
(*           and parse_auction_date, applied to bounded texts.             *)
(* SpecTwo   two calls of parse_auction_sheet on two documents, their      *)
(*           steps interleaved in any order.                               *)
(* SpecUpload  the upload request of Spec with the failures of its         *)
(*           database steps and the end of its session (get_db).           *)
(* SpecGroup group_records applied to sequences of catalogued text lines.  *)
(***************************************************************************)
EXTENDS Integers, Sequences, FiniteSets, TLC

\* ------------------------------------------------------------------------
\* Characters and character classes
\* ------------------------------------------------------------------------

\* str.strip(), \s: the white space of the alphabet
Whitespace == { " ", "\t", "\n", "\r" }

\* str.splitlines(): the line boundaries of the alphabet
LineBreaks == { "\n", "\r" }

AsciiDigits == { "0", "1", "2", "3", "4", "5", "6", "7", "8", "9" }

AsciiUpper ==
    { "A", "B", "C", "D", "E", "F", "G", "H", "I", "J", "K", "L", "M",
      "N", "O", "P", "Q", "R", "S", "T", "U", "V", "W", "X", "Y", "Z" }

AsciiLower ==
    { "a", "b", "c", "d", "e", "f", "g", "h", "i", "j", "k", "l", "m",
      "n", "o", "p", "q", "r", "s", "t", "u", "v", "w", "x", "y", "z" }

ZenDigits == { "U+FF10", "U+FF11", "U+FF12", "U+FF13", "U+FF14", "U+FF15", "U+FF16", "U+FF17", "U+FF18", "U+FF19" }

\* ｷｰ ｷ キー key Key KEY
NOISE_TOKENS ==
    { <<"U+FF77", "U+FF70">>, <<"U+FF77">>, <<"キ", "ー">>, <<"k", "e", "y">>, <<"K", "e", "y">>, <<"K", "E", "Y">> }

\* _norm_jp: ｰ -> ー, ･ -> ・, ‐ -> ー, ― -> ー
NORM_JP_REPLACE ==
    "U+FF70" :> "ー" @@ "U+FF65" :> "・" @@ "U+2010" :> "ー" @@ "U+2015" :> "ー"

\* ０１２３４５６７８９－，．／ -> 0123456789-,./
ZEN2HAN ==
    "U+FF10" :> "0" @@ "U+FF11" :> "1" @@ "U+FF12" :> "2" @@ "U+FF13" :> "3" @@ "U+FF14" :> "4" @@ "U+FF15" :> "5" @@
    "U+FF16" :> "6" @@ "U+FF17" :> "7" @@ "U+FF18" :> "8" @@ "U+FF19" :> "9" @@ "U+FF0D" :> "-" @@ "U+FF0C" :> "," @@
    "U+FF0E" :> "." @@ "U+FF0F" :> "/"

_DAKUTEN_BASE ==
    "ガ" :> "カ" @@ "ギ" :> "キ" @@ "グ" :> "ク" @@ "ゲ" :> "ケ" @@ "ゴ" :> "コ" @@ "ザ" :> "サ" @@
    "ジ" :> "シ" @@ "ズ" :> "ス" @@ "ゼ" :> "セ" @@ "ゾ" :> "ソ" @@ "ダ" :> "タ" @@ "ヂ" :> "チ" @@
    "ヅ" :> "ツ" @@ "デ" :> "テ" @@ "ド" :> "ト" @@ "バ" :> "ハ" @@ "ビ" :> "ヒ" @@ "ブ" :> "フ" @@
    "ベ" :> "ヘ" @@ "ボ" :> "ホ" @@ "ヴ" :> "ウ" @@ "パ" :> "ハ" @@ "ピ" :> "ヒ" @@ "プ" :> "フ" @@
    "ペ" :> "ヘ" @@ "ポ" :> "ホ"

KatakanaBlock ==
    { "゠", "ァ", "ア", "ィ", "イ", "ゥ", "ウ", "ェ", "エ", "ォ", "オ", "カ", "ガ", "キ", "ギ", "ク",
    "グ", "ケ", "ゲ", "コ", "ゴ", "サ", "ザ", "シ", "ジ", "ス", "ズ", "セ", "ゼ", "ソ", "ゾ", "タ",
    "ダ", "チ", "ヂ", "ッ", "ツ", "ヅ", "テ", "デ", "ト", "ド", "ナ", "ニ", "ヌ", "ネ", "ノ", "ハ",
    "バ", "パ", "ヒ", "ビ", "ピ", "フ", "ブ", "プ", "ヘ", "ベ", "ペ", "ホ", "ボ", "ポ", "マ", "ミ",
    "ム", "メ", "モ", "ャ", "ヤ", "ュ", "ユ", "ョ", "ヨ", "ラ", "リ", "ル", "レ", "ロ", "ヮ", "ワ",
    "ヰ", "ヱ", "ヲ", "ン", "ヴ", "ヵ", "ヶ", "ヷ", "ヸ", "ヹ", "ヺ", "・", "ー", "ヽ", "ヾ", "ヿ" }

HiraganaBlock ==
    { "U+3041", "U+3042", "U+3043", "U+3044", "U+3045", "U+3046", "U+3047", "U+3048", "U+3049", "U+304A", "U+304B", "U+304C", "U+304D", "U+304E", "U+304F", "U+3050",
    "U+3051", "U+3052", "U+3053", "U+3054", "U+3055", "U+3056", "U+3057", "U+3058", "U+3059", "U+305A", "U+305B", "U+305C", "U+305D", "U+305E", "U+305F", "U+3060",
    "U+3061", "U+3062", "U+3063", "U+3064", "U+3065", "U+3066", "U+3067", "U+3068", "U+3069", "U+306A", "U+306B", "U+306C", "U+306D", "U+306E", "U+306F", "U+3070",
    "U+3071", "U+3072", "U+3073", "U+3074", "U+3075", "U+3076", "U+3077", "U+3078", "U+3079", "U+307A", "U+307B", "U+307C", "U+307D", "U+307E", "U+307F", "U+3080",
    "U+3081", "U+3082", "U+3083", "U+3084", "U+3085", "U+3086", "U+3087", "U+3088", "U+3089", "U+308A", "U+308B", "U+308C", "U+308D", "U+308E", "U+308F", "U+3090",
    "U+3091", "U+3092", "U+3093", "U+3094", "U+3095", "U+3096", "U+3099", "U+309A", "U+309B", "U+309C", "U+309D", "U+309E", "U+309F" }

\* halfwidth katakana and punctuation U+FF61..U+FF9F; fullwidth digits, letters
\* and －，．／＃（）：
NFKC_COMPAT ==
    "U+FF61" :> "U+3002" @@ "U+FF62" :> "U+300C" @@ "U+FF63" :> "U+300D" @@ "U+FF64" :> "U+3001" @@ "U+FF65" :> "・" @@ "U+FF66" :> "ヲ" @@
    "U+FF67" :> "ァ" @@ "U+FF68" :> "ィ" @@ "U+FF69" :> "ゥ" @@ "U+FF6A" :> "ェ" @@ "U+FF6B" :> "ォ" @@ "U+FF6C" :> "ャ" @@
    "U+FF6D" :> "ュ" @@ "U+FF6E" :> "ョ" @@ "U+FF6F" :> "ッ" @@ "U+FF70" :> "ー" @@ "U+FF71" :> "ア" @@ "U+FF72" :> "イ" @@
    "U+FF73" :> "ウ" @@ "U+FF74" :> "エ" @@ "U+FF75" :> "オ" @@ "U+FF76" :> "カ" @@ "U+FF77" :> "キ" @@ "U+FF78" :> "ク" @@
    "U+FF79" :> "ケ" @@ "U+FF7A" :> "コ" @@ "U+FF7B" :> "サ" @@ "U+FF7C" :> "シ" @@ "U+FF7D" :> "ス" @@ "U+FF7E" :> "セ" @@
    "U+FF7F" :> "ソ" @@ "U+FF80" :> "タ" @@ "U+FF81" :> "チ" @@ "U+FF82" :> "ツ" @@ "U+FF83" :> "テ" @@ "U+FF84" :> "ト" @@
    "U+FF85" :> "ナ" @@ "U+FF86" :> "ニ" @@ "U+FF87" :> "ヌ" @@ "U+FF88" :> "ネ" @@ "U+FF89" :> "ノ" @@ "U+FF8A" :> "ハ" @@
    "U+FF8B" :> "ヒ" @@ "U+FF8C" :> "フ" @@ "U+FF8D" :> "ヘ" @@ "U+FF8E" :> "ホ" @@ "U+FF8F" :> "マ" @@ "U+FF90" :> "ミ" @@
    "U+FF91" :> "ム" @@ "U+FF92" :> "メ" @@ "U+FF93" :> "モ" @@ "U+FF94" :> "ヤ" @@ "U+FF95" :> "ユ" @@ "U+FF96" :> "ヨ" @@
    "U+FF97" :> "ラ" @@ "U+FF98" :> "リ" @@ "U+FF99" :> "ル" @@ "U+FF9A" :> "レ" @@ "U+FF9B" :> "ロ" @@ "U+FF9C" :> "ワ" @@
    "U+FF9D" :> "ン" @@ "U+FF9E" :> "U+3099" @@ "U+FF9F" :> "U+309A" @@ "U+FF10" :> "0" @@ "U+FF11" :> "1" @@ "U+FF12" :> "2" @@
    "U+FF13" :> "3" @@ "U+FF14" :> "4" @@ "U+FF15" :> "5" @@ "U+FF16" :> "6" @@ "U+FF17" :> "7" @@ "U+FF18" :> "8" @@
    "U+FF19" :> "9" @@ "U+FF21" :> "A" @@ "U+FF22" :> "B" @@ "U+FF23" :> "C" @@ "U+FF24" :> "D" @@ "U+FF25" :> "E" @@
    "U+FF26" :> "F" @@ "U+FF27" :> "G" @@ "U+FF28" :> "H" @@ "U+FF29" :> "I" @@ "U+FF2A" :> "J" @@ "U+FF2B" :> "K" @@
    "U+FF2C" :> "L" @@ "U+FF2D" :> "M" @@ "U+FF2E" :> "N" @@ "U+FF2F" :> "O" @@ "U+FF30" :> "P" @@ "U+FF31" :> "Q" @@
    "U+FF32" :> "R" @@ "U+FF33" :> "S" @@ "U+FF34" :> "T" @@ "U+FF35" :> "U" @@ "U+FF36" :> "V" @@ "U+FF37" :> "W" @@
    "U+FF38" :> "X" @@ "U+FF39" :> "Y" @@ "U+FF3A" :> "Z" @@ "U+FF41" :> "a" @@ "U+FF42" :> "b" @@ "U+FF43" :> "c" @@
    "U+FF44" :> "d" @@ "U+FF45" :> "e" @@ "U+FF46" :> "f" @@ "U+FF47" :> "g" @@ "U+FF48" :> "h" @@ "U+FF49" :> "i" @@
    "U+FF4A" :> "j" @@ "U+FF4B" :> "k" @@ "U+FF4C" :> "l" @@ "U+FF4D" :> "m" @@ "U+FF4E" :> "n" @@ "U+FF4F" :> "o" @@
    "U+FF50" :> "p" @@ "U+FF51" :> "q" @@ "U+FF52" :> "r" @@ "U+FF53" :> "s" @@ "U+FF54" :> "t" @@ "U+FF55" :> "u" @@
    "U+FF56" :> "v" @@ "U+FF57" :> "w" @@ "U+FF58" :> "x" @@ "U+FF59" :> "y" @@ "U+FF5A" :> "z" @@ "U+FF0D" :> "-" @@
    "U+FF0C" :> "," @@ "U+FF0E" :> "." @@ "U+FF0F" :> "/" @@ "U+FF03" :> "#" @@ "U+FF08" :> "(" @@ "U+FF09" :> ")" @@
    "U+FF1A" :> ":"

NFKC_COMPOSE ==
    <<"U+3046", "U+3099">> :> "U+3094" @@ <<"U+304B", "U+3099">> :> "U+304C" @@ <<"U+304D", "U+3099">> :> "U+304E" @@ <<"U+304F", "U+3099">> :> "U+3050" @@
    <<"U+3051", "U+3099">> :> "U+3052" @@ <<"U+3053", "U+3099">> :> "U+3054" @@ <<"U+3055", "U+3099">> :> "U+3056" @@ <<"U+3057", "U+3099">> :> "U+3058" @@
    <<"U+3059", "U+3099">> :> "U+305A" @@ <<"U+305B", "U+3099">> :> "U+305C" @@ <<"U+305D", "U+3099">> :> "U+305E" @@ <<"U+305F", "U+3099">> :> "U+3060" @@
    <<"U+3061", "U+3099">> :> "U+3062" @@ <<"U+3064", "U+3099">> :> "U+3065" @@ <<"U+3066", "U+3099">> :> "U+3067" @@ <<"U+3068", "U+3099">> :> "U+3069" @@
    <<"U+306F", "U+3099">> :> "U+3070" @@ <<"U+306F", "U+309A">> :> "U+3071" @@ <<"U+3072", "U+3099">> :> "U+3073" @@ <<"U+3072", "U+309A">> :> "U+3074" @@
    <<"U+3075", "U+3099">> :> "U+3076" @@ <<"U+3075", "U+309A">> :> "U+3077" @@ <<"U+3078", "U+3099">> :> "U+3079" @@ <<"U+3078", "U+309A">> :> "U+307A" @@
    <<"U+307B", "U+3099">> :> "U+307C" @@ <<"U+307B", "U+309A">> :> "U+307D" @@ <<"ウ", "U+3099">> :> "ヴ" @@ <<"カ", "U+3099">> :> "ガ" @@
    <<"キ", "U+3099">> :> "ギ" @@ <<"ク", "U+3099">> :> "グ" @@ <<"ケ", "U+3099">> :> "ゲ" @@ <<"コ", "U+3099">> :> "ゴ" @@
    <<"サ", "U+3099">> :> "ザ" @@ <<"シ", "U+3099">> :> "ジ" @@ <<"ス", "U+3099">> :> "ズ" @@ <<"セ", "U+3099">> :> "ゼ" @@
    <<"ソ", "U+3099">> :> "ゾ" @@ <<"タ", "U+3099">> :> "ダ" @@ <<"チ", "U+3099">> :> "ヂ" @@ <<"ツ", "U+3099">> :> "ヅ" @@
    <<"テ", "U+3099">> :> "デ" @@ <<"ト", "U+3099">> :> "ド" @@ <<"ハ", "U+3099">> :> "バ" @@ <<"ハ", "U+309A">> :> "パ" @@
    <<"ヒ", "U+3099">> :> "ビ" @@ <<"ヒ", "U+309A">> :> "ピ" @@ <<"フ", "U+3099">> :> "ブ" @@ <<"フ", "U+309A">> :> "プ" @@
    <<"ヘ", "U+3099">> :> "ベ" @@ <<"ヘ", "U+309A">> :> "ペ" @@ <<"ホ", "U+3099">> :> "ボ" @@ <<"ホ", "U+309A">> :> "ポ" @@
    <<"ワ", "U+3099">> :> "ヷ" @@ <<"ヰ", "U+3099">> :> "ヸ" @@ <<"ヱ", "U+3099">> :> "ヹ" @@ <<"ヲ", "U+3099">> :> "ヺ" @@
    <<"ヽ", "U+3099">> :> "ヾ"

HEADER_ALIASES == <<
    \* 出品番号 番号 Lot LOT ロット 車番 出品No 出品No.
    [key |-> "auction_no", aliases |-> <<<<"U+51FA", "U+54C1", "U+756A", "U+53F7">>,
        <<"U+756A", "U+53F7">>,
        <<"L", "o", "t">>,
        <<"L", "O", "T">>,
        <<"ロ", "ッ", "ト">>,
        <<"U+8ECA", "U+756A">>,
        <<"U+51FA", "U+54C1", "N", "o">>,
        <<"U+51FA", "U+54C1", "N", "o", ".">>>>],
    \* メーカー メーカー名 Maker Make ﾒｰｶｰ
    [key |-> "maker", aliases |-> <<<<"メ", "ー", "カ", "ー">>,
        <<"メ", "ー", "カ", "ー", "U+540D">>,
        <<"M", "a", "k", "e", "r">>,
        <<"M", "a", "k", "e">>,
        <<"U+FF92", "U+FF70", "U+FF76", "U+FF70">>>>],
    \* 車名 車種 車両名 Model 車型
    [key |-> "car_name", aliases |-> <<<<"U+8ECA", "U+540D">>,
        <<"U+8ECA", "U+7A2E">>,
        <<"U+8ECA", "U+4E21", "U+540D">>,
        <<"M", "o", "d", "e", "l">>,
        <<"U+8ECA", "U+578B">>>>],
    \* グレード 仕様 Grade
    [key |-> "grade", aliases |-> <<<<"グ", "レ", "ー", "ド">>,
        <<"U+4ED5", "U+69D8">>,
        <<"G", "r", "a", "d", "e">>>>],
    \* 型式 型式/類別 型式類別 Type
    [key |-> "model_code", aliases |-> <<<<"U+578B", "U+5F0F">>,
        <<"U+578B", "U+5F0F", "/", "U+985E", "U+5225">>,
        <<"U+578B", "U+5F0F", "U+985E", "U+5225">>,
        <<"T", "y", "p", "e">>>>],
    \* 年式 初度登録 初年度 年式(初度)
    [key |-> "year", aliases |-> <<<<"U+5E74", "U+5F0F">>,
        <<"U+521D", "U+5EA6", "U+767B", "U+9332">>,
        <<"U+521D", "U+5E74", "U+5EA6">>,
        <<"U+5E74", "U+5F0F", "(", "U+521D", "U+5EA6", ")">>>>],
    \* 走行距離 距離 走行 走行(km)
    [key |-> "mileage_km", aliases |-> <<<<"U+8D70", "U+884C", "U+8DDD", "U+96E2">>,
        <<"U+8DDD", "U+96E2">>,
        <<"U+8D70", "U+884C">>,
        <<"U+8D70", "U+884C", "(", "k", "m", ")">>>>],
    \* 色 カラー Color
    [key |-> "color", aliases |-> <<<<"U+8272">>,
        <<"カ", "ラ", "ー">>,
        <<"C", "o", "l", "o", "r">>>>],
    \* ミッション AT/MT シフト 変速
    [key |-> "shift", aliases |-> <<<<"ミ", "ッ", "シ", "ョ", "ン">>,
        <<"A", "T", "/", "M", "T">>,
        <<"シ", "フ", "ト">>,
        <<"U+5909", "U+901F">>>>],
    \* 車検 車検有効 車検満了 検切れ
    [key |-> "inspection_until", aliases |-> <<<<"U+8ECA", "U+691C">>,
        <<"U+8ECA", "U+691C", "U+6709", "U+52B9">>,
        <<"U+8ECA", "U+691C", "U+6E80", "U+4E86">>,
        <<"U+691C", "U+5207", "U+308C">>>>],
    \* 評価 評価点 点数
    [key |-> "score", aliases |-> <<<<"U+8A55", "U+4FA1">>,
        <<"U+8A55", "U+4FA1", "U+70B9">>,
        <<"U+70B9", "U+6570">>>>],
    \* スタート 開始価格 最低価格 Start
    [key |-> "start_price_yen", aliases |-> <<<<"ス", "タ", "ー", "ト">>,
        <<"U+958B", "U+59CB", "U+4FA1", "U+683C">>,
        <<"U+6700", "U+4F4E", "U+4FA1", "U+683C">>,
        <<"S", "t", "a", "r", "t">>>>],
    \* 排気量 cc エンジン
    [key |-> "displacement_cc", aliases |-> <<<<"U+6392", "U+6C17", "U+91CF">>,
        <<"c", "c">>,
        <<"エ", "ン", "ジ", "ン">>>>],
    \* ｴｱｺﾝ エアコン A/C
    [key |-> "aircon", aliases |-> <<<<"U+FF74", "U+FF71", "U+FF7A", "U+FF9D">>,
        <<"エ", "ア", "コ", "ン">>,
        <<"A", "/", "C">>>>],
    \* 装備 オプション
    [key |-> "equipment", aliases |-> <<<<"U+88C5", "U+5099">>,
        <<"オ", "プ", "シ", "ョ", "ン">>>>],
    \* レーン ﾚｰﾝ Lane
    [key |-> "lane", aliases |-> <<<<"レ", "ー", "ン">>,
        <<"U+FF9A", "U+FF70", "U+FF9D">>,
        <<"L", "a", "n", "e">>>>] >>

KNOWN_MAKERS == <<
    <<"ト", "ヨ", "タ">>,
    <<"ホ", "ン", "ダ">>,
    <<"U+65E5", "U+7523">>,  \* 日産
    <<"ス", "ズ", "キ">>,
    <<"ス", "バ", "ル">>,
    <<"ダ", "イ", "ハ", "ツ">>,
    <<"マ", "ツ", "ダ">>,
    <<"U+4E09", "U+83F1">>,  \* 三菱
    <<"レ", "ク", "サ", "ス">>,
    <<"U+3044", "U+3059", "U+309E">>,  \* いすゞ
    <<"U+65E5", "U+91CE">>,  \* 日野
    <<"U+4E09", "U+83F1", "U+3075", "U+305D", "U+3046">>,  \* 三菱ふそう
    <<"メ", "ル", "セ", "デ", "ス", "・", "ベ", "ン", "ツ">>,
    <<"B", "M", "W">>,
    <<"ア", "ウ", "デ", "ィ">>,
    <<"フ", "ォ", "ル", "ク", "ス", "ワ", "ー", "ゲ", "ン">>,
    <<"ボ", "ル", "ボ">>,
    <<"プ", "ジ", "ョ", "ー">>,
    <<"シ", "ト", "ロ", "エ", "ン">>,
    <<"ル", "ノ", "ー">>,
    <<"ジ", "ー", "プ">>,
    <<"フ", "ィ", "ア", "ッ", "ト">>,
    <<"ア", "ル", "フ", "ァ", "ロ", "メ", "オ">>,
    <<"ポ", "ル", "シ", "ェ">>,
    <<"ミ", "ニ">>,
    <<"ラ", "ン", "ド", "ロ", "ー", "バ", "ー">>,
    <<"ジ", "ャ", "ガ", "ー">>,
    <<"キ", "ャ", "デ", "ラ", "ッ", "ク">>,
    <<"シ", "ボ", "レ", "ー">>,
    <<"フ", "ォ", "ー", "ド">>,
    <<"テ", "ス", "ラ">> >>

MAKER_FRAGMENT_RULES == <<
    [fragA |-> <<"ト", "ヨ">>, fragB |-> <<"タ">>, mk |-> <<"ト", "ヨ", "タ">>],
    [fragA |-> <<"ホ", "ン">>, fragB |-> <<"ダ">>, mk |-> <<"ホ", "ン", "ダ">>],
    [fragA |-> <<"ス", "バ">>, fragB |-> <<"ル">>, mk |-> <<"ス", "バ", "ル">>],
    [fragA |-> <<"ダ", "イ">>, fragB |-> <<"ハ", "ツ">>, mk |-> <<"ダ", "イ", "ハ", "ツ">>],
    [fragA |-> <<"マ", "ツ">>, fragB |-> <<"ダ">>, mk |-> <<"マ", "ツ", "ダ">>],
    [fragA |-> <<"ス", "ズ">>, fragB |-> <<"キ">>, mk |-> <<"ス", "ズ", "キ">>] >>

\* 2WD 4WD AAC ABS AC AT AW B ETC FA HDD HID I IA J MT PS PW SRS ナビ 有 無 革 ﾅﾋﾞ
OPTION_TOKENS == {
    <<"2", "W", "D">>,
    <<"4", "W", "D">>,
    <<"A", "A", "C">>,
    <<"A", "B", "S">>,
    <<"A", "C">>,
    <<"A", "T">>,
    <<"A", "W">>,
    <<"B">>,
    <<"E", "T", "C">>,
    <<"F", "A">>,
    <<"H", "D", "D">>,
    <<"H", "I", "D">>,
    <<"I">>,
    <<"I", "A">>,
    <<"J">>,
    <<"M", "T">>,
    <<"P", "S">>,
    <<"P", "W">>,
    <<"S", "R", "S">>,
    <<"ナ", "ビ">>,
    <<"U+6709">>,
    <<"U+7121">>,
    <<"U+9769">>,
    <<"U+FF85", "U+FF8B", "U+FF9E">> }

\* 三両了京仕付令会低価備出切初別効古号名和品型場変大始屋平年度式成排数日最月有東格検様気満点無産番登種色菱行装評走距車速野量録開阪離革類
KanjiChars ==
    { "U+4E09", "U+4E21", "U+4E86", "U+4EAC", "U+4ED5", "U+4ED8", "U+4EE4", "U+4F1A", "U+4F4E", "U+4FA1", "U+5099", "U+51FA", "U+5207", "U+521D", "U+5225", "U+52B9",
    "U+53E4", "U+53F7", "U+540D", "U+548C", "U+54C1", "U+578B", "U+5834", "U+5909", "U+5927", "U+59CB", "U+5C4B", "U+5E73", "U+5E74", "U+5EA6", "U+5F0F", "U+6210",
    "U+6392", "U+6570", "U+65E5", "U+6700", "U+6708", "U+6709", "U+6771", "U+683C", "U+691C", "U+69D8", "U+6C17", "U+6E80", "U+70B9", "U+7121", "U+7523", "U+756A",
    "U+767B", "U+7A2E", "U+8272", "U+83F1", "U+884C", "U+88C5", "U+8A55", "U+8D70", "U+8DDD", "U+8ECA", "U+901F", "U+91CE", "U+91CF", "U+9332", "U+958B", "U+962A",
    "U+96E2", "U+9769", "U+985E" }

\* halfwidth katakana letters and sound marks (U+FF66..U+FF9F)
HalfwidthKana ==
    { c \in DOMAIN NFKC_COMPAT : NFKC_COMPAT[c] \in (KatakanaBlock \ { "・" }) \cup { "U+3099", "U+309A" } }

FullwidthLetters == { c \in DOMAIN NFKC_COMPAT : NFKC_COMPAT[c] \in AsciiUpper \cup AsciiLower }

\* re \d (str patterns match every Unicode decimal digit)
IsDigit(c) == c \in AsciiDigits \cup ZenDigits

\* re \w: letters, digits and the underscore; "・", "゠" and the kana sound marks are not
IsWord(c) ==
    \/ IsDigit(c)
    \/ c \in AsciiUpper \cup AsciiLower \cup { "_" }
    \/ c \in (KatakanaBlock \ { "・", "゠" })
    \/ c \in (HiraganaBlock \ { "U+3099", "U+309A", "U+309B", "U+309C" })
    \/ c \in KanjiChars
    \/ c \in HalfwidthKana \cup FullwidthLetters

IsSpace(c) == c \in Whitespace

\* ------------------------------------------------------------------------
\* str operations
\* ------------------------------------------------------------------------

\* None: a value no str equals (its one element is not a character)
None == <<"None">>

\* (s or "")
OrEmpty(s) == IF s = None THEN <<>> ELSE s

MinOf(S) == CHOOSE x \in S : \A y \in S : x <= y

MaxOf(S) == CHOOSE x \in S : \A y \in S : y <= x

\* str.strip()
Strip(s) ==
    LET keep == { i \in 1..Len(s) : ~IsSpace(s[i]) }
    IN  IF keep = {} THEN <<>> ELSE SubSeq(s, MinOf(keep), MaxOf(keep))

\* str.translate(table)
Translate(s, table) ==
    [i \in 1..Len(s) |-> IF s[i] \in DOMAIN table THEN table[s[i]] ELSE s[i]]

\* sub in s
Contains(sub, s) ==
    \E i \in 0..(Len(s) - Len(sub)) : SubSeq(s, i + 1, i + Len(sub)) = sub

\* s.startswith(p)
StartsWith(s, p) == Len(p) <= Len(s) /\ SubSeq(s, 1, Len(p)) = p

\* s.endswith(p)
EndsWith(s, p) == Len(p) <= Len(s) /\ SubSeq(s, Len(s) - Len(p) + 1, Len(s)) = p

\* s[:n]
Prefix(s, n) == SubSeq(s, 1, IF n < Len(s) THEN n ELSE Len(s))

\* s[n:]
Suffix(s, n) == SubSeq(s, n + 1, Len(s))

\* s.replace(old, new), old not empty: left to right, not overlapping
RECURSIVE Replace(_, _, _)
Replace(s, old, new) ==
    IF Len(s) < Len(old) THEN s
    ELSE IF SubSeq(s, 1, Len(old)) = old
         THEN new \o Replace(Suffix(s, Len(old)), old, new)
         ELSE <<Head(s)>> \o Replace(Tail(s), old, new)

\* "".join(parts)
RECURSIVE Join(_)
Join(parts) == IF parts = <<>> THEN <<>> ELSE Head(parts) \o Join(Tail(parts))

\* sep.join(parts)
RECURSIVE JoinWith(_, _)
JoinWith(sep, parts) ==
    IF parts = <<>> THEN <<>>
    ELSE IF Len(parts) = 1 THEN parts[1]
    ELSE parts[1] \o sep \o JoinWith(sep, Tail(parts))

\* str.splitlines(): no line for the empty string, none after a final break
RECURSIVE splitlines(_)
splitlines(s) ==
    IF s = <<>> THEN <<>>
    ELSE LET brk == { i \in 1..Len(s) : s[i] \in LineBreaks }
         IN  IF brk = {} THEN <<s>>
             ELSE LET i == MinOf(brk)
                      \* "\r\n" is one boundary
                      j == IF s[i] = "\r" /\ i < Len(s) /\ s[i + 1] = "\n" THEN i + 1 ELSE i
                  IN  <<SubSeq(s, 1, i - 1)>> \o splitlines(Suffix(s, j))

\* unicodedata.normalize("NFKC", s) on the alphabet: the compatibility mapping
\* of each character, then the composition of a kana with a following
\* combining voiced or semi-voiced mark
RECURSIVE NfkcCompose(_)
NfkcCompose(s) ==
    IF Len(s) < 2 THEN s
    ELSE IF <<s[1], s[2]>> \in DOMAIN NFKC_COMPOSE
         THEN <<NFKC_COMPOSE[<<s[1], s[2]>>]>> \o NfkcCompose(Suffix(s, 2))
         ELSE <<s[1]>> \o NfkcCompose(Tail(s))

NFKC(s) == NfkcCompose(Translate(s, NFKC_COMPAT))

\* int(s) of an optional "-" and ASCII digits
RECURSIVE DigitsValue(_)
DigitsValue(ds) ==
    IF ds = <<>> THEN 0
    ELSE 10 * DigitsValue(SubSeq(ds, 1, Len(ds) - 1))
         + (CHOOSE d \in 0..9 : <<"0", "1", "2", "3", "4", "5", "6", "7", "8", "9">>[d + 1] = ds[Len(ds)])

\* ------------------------------------------------------------------------
\* parser.py: utilities
\* ------------------------------------------------------------------------

\* z2h with the two strings of the translation table out of step: － is
\* mapped to ． (still full-width) and only ． to "."
Z2hOutOfStep(s) ==
    Strip(Translate(OrEmpty(s),
        [c \in DOMAIN ZEN2HAN |-> IF c = "U+FF0D" THEN "U+FF0E" ELSE ZEN2HAN[c]]))

z2h(s) == Strip(Translate(OrEmpty(s), ZEN2HAN))

_strip_noise_cell(cell) ==
    LET s == Strip(OrEmpty(cell))
        sz == z2h(s)
    IN  IF sz \in NOISE_TOKENS THEN <<>> ELSE s

_strip_noise_row(row) == [i \in 1..Len(row) |-> _strip_noise_cell(row[i])]

_devoice_katakana(s) == Translate(OrEmpty(s), _DAKUTEN_BASE)

_norm_jp(s) ==
    LET t  == NFKC(OrEmpty(s))
        t2 == SelectSeq(t, LAMBDA c : ~IsSpace(c))
    IN  Translate(t2, NORM_JP_REPLACE)

\* Optional[int]: <<>> is None, <<n>> the integer n
NoInt == <<>>

SomeInt(n) == <<n>>

\* to_int_or_none that keeps the digits only: re.sub(r"[^\d]", "", s2)
ToIntDigitsOnly(s) ==
    IF s = None THEN NoInt
    ELSE LET s2 == SelectSeq(z2h(s), LAMBDA c : IsDigit(c))
         IN  IF s2 = <<>> THEN NoInt ELSE SomeInt(DigitsValue(s2))

\* re.sub(r"[^\d\-]", "", s2), then int(s2) or None
to_int_or_none(s) ==
    IF s = None THEN NoInt
    ELSE LET s2 == SelectSeq(z2h(s), LAMBDA c : IsDigit(c) \/ c = "-")
         IN  IF s2 \in { <<>>, <<"-">>, <<"-", "-">> } THEN NoInt
             ELSE IF \A i \in 1..Len(s2) : s2[i] # "-" THEN SomeInt(DigitsValue(s2))
             ELSE IF s2[1] = "-" /\ Len(s2) > 1 /\ \A i \in 2..Len(s2) : s2[i] # "-"
                  THEN SomeInt(0 - DigitsValue(Tail(s2)))
             \* int() raises ValueError, caught
             ELSE NoInt

\* the leftmost run of digits of s from position i, at most n long
DigitRun(s, i, n) ==
    LET stop == { j \in i..Len(s) : ~IsDigit(s[j]) } \cup { Len(s) + 1, i + n }
    IN  SubSeq(s, i, MinOf(stop) - 1)

\* parse_mileage_km that reads a value below 1000 as thousands
MileageThousands(s) ==
    IF s = None \/ s = <<>> THEN NoInt
    ELSE LET s2 == Replace(z2h(s), <<",">>, <<>>)
             at == { i \in 1..Len(s2) : IsDigit(s2[i]) }
             Scaled(n) == IF n < 1000 THEN 1000 * n ELSE n
         IN  IF at # {} THEN SomeInt(Scaled(DigitsValue(DigitRun(s2, MinOf(at), 9))))
             ELSE to_int_or_none(s2)

parse_mileage_km(s) ==
    IF s = None \/ s = <<>> THEN NoInt
    ELSE LET s2 == Replace(z2h(s), <<",">>, <<>>)
             at == { i \in 1..Len(s2) : IsDigit(s2[i]) }
         IN  IF at # {} THEN SomeInt(DigitsValue(DigitRun(s2, MinOf(at), 9)))
             ELSE to_int_or_none(s2)

\* coerce_row_to_vehicle, key == "start_price_yen": re.search(r"(-?\d+)", ss)
parse_start_price(s) ==
    LET ss == Replace(z2h(s), <<",">>, <<>>)
        at == { i \in 1..Len(ss) :
                  \/ IsDigit(ss[i])
                  \/ ss[i] = "-" /\ i < Len(ss) /\ IsDigit(ss[i + 1]) }
    IN  IF at = {} THEN NoInt
        ELSE LET i == MinOf(at)
             IN  IF ss[i] = "-"
                 THEN SomeInt(0 - DigitsValue(DigitRun(ss, i + 1, Len(ss))))
                 ELSE SomeInt(DigitsValue(DigitRun(ss, i, Len(ss))))

\* ------------------------------------------------------------------------
\* parser.py: header resolution
\* ------------------------------------------------------------------------

header_match_score(cell, target_list) ==
    LET cs == z2h(cell)
    IN  IF \E k \in 1..Len(target_list) : Contains(target_list[k], cs) THEN 1 ELSE 0

\* the inner loop of normalize_header_row: the first key, in the order of
\* HEADER_ALIASES, whose score exceeds the best so far; "" when none does
BestKey(cell) ==
    LET hit == { k \in 1..Len(HEADER_ALIASES) :
                   header_match_score(OrEmpty(cell), HEADER_ALIASES[k].aliases) > 0 }
    IN  IF hit = {} THEN "" ELSE HEADER_ALIASES[MinOf(hit)].key

\* Dict[int, str]: a function from the matched column positions (1-based,
\* the code's idx + 1) to field keys
normalize_header_row(row) ==
    LET matched == { idx \in 1..Len(row) : BestKey(row[idx]) # "" }
    IN  [idx \in matched |-> BestKey(row[idx])]

\* [(c or "").strip() for c in r]
StripRow(r) == [j \in 1..Len(r) |-> Strip(OrEmpty(r[j]))]

\* HeaderScan where a later row with as many columns replaces the best so far
RECURSIVE HeaderScanLatest(_, _, _)
HeaderScanLatest(tbl, i, best) ==
    LET max_check == IF Len(tbl) < 3 THEN Len(tbl) ELSE 3
    IN  IF i >= max_check THEN best
        ELSE LET mapping == normalize_header_row(StripRow(tbl[i + 1]))
                 n == Cardinality(DOMAIN mapping)
             IN  IF n >= best.best_cols /\ n > 0
                 THEN HeaderScanLatest(tbl, i + 1,
                        [header_row_idx |-> i, header_map |-> mapping, best_cols |-> n])
                 ELSE HeaderScanLatest(tbl, i + 1, best)

\* parse_auction_sheet, header detection: rows 0 .. min(3, len(tbl)) - 1 in
\* order, a row replacing the best so far only when it maps more columns
RECURSIVE HeaderScan(_, _, _)
HeaderScan(tbl, i, best) ==
    LET max_check == IF Len(tbl) < 3 THEN Len(tbl) ELSE 3
    IN  IF i >= max_check THEN best
        ELSE LET mapping == normalize_header_row(StripRow(tbl[i + 1]))
                 n == Cardinality(DOMAIN mapping)
             IN  IF n > best.best_cols
                 THEN HeaderScan(tbl, i + 1,
                        [header_row_idx |-> i, header_map |-> mapping, best_cols |-> n])
                 ELSE HeaderScan(tbl, i + 1, best)

DetectHeader(tbl) ==
    HeaderScan(tbl, 0, [header_row_idx |-> 0, header_map |-> <<>>, best_cols |-> 0])

\* ------------------------------------------------------------------------
\* parser.py: row -> vehicle dict
\* ------------------------------------------------------------------------

IntKeys == { "mileage_km", "year", "start_price_yen", "displacement_cc" }

CoerceCell(key, raw) ==
    LET s == Strip(OrEmpty(raw))
    IN  CASE key = "mileage_km" -> parse_mileage_km(s)
          [] key = "year" -> to_int_or_none(s)
          [] key = "start_price_yen" -> parse_start_price(s)
          [] key = "displacement_cc" -> to_int_or_none(s)
          [] OTHER -> z2h(s)

\* a dict is a function from its keys; a later column of the same key
\* overwrites an earlier one
coerce_row_to_vehicle(row, colmap) ==
    LET cols == { i \in 1..Len(row) : i \in DOMAIN colmap }
        keys == { colmap[i] : i \in cols }
    IN  [k \in keys |-> CoerceCell(k, row[MaxOf({ i \in cols : colmap[i] = k })])]

\* v.get(k), and its truth value for a str
Get(v, k) == IF k \in DOMAIN v THEN v[k] ELSE None

Truthy(x) == x # None /\ x # <<>>

\* ------------------------------------------------------------------------
\* parser.py: stacked cells, fragment rows
\* ------------------------------------------------------------------------

\* explode_stacked_row without the strip() of the lines
ExplodeUntrimmed(row) ==
    LET split_cols == [j \in 1..Len(row) |-> splitlines(OrEmpty(row[j]))]
        max_len == IF row = <<>> THEN 1
                   ELSE MaxOf({ Len(split_cols[j]) : j \in 1..Len(row) })
    IN  IF max_len <= 1 THEN <<row>>
        ELSE [i \in 1..max_len |->
                [j \in 1..Len(row) |->
                    IF i <= Len(split_cols[j]) THEN split_cols[j][i] ELSE <<>>]]

explode_stacked_row(row) ==
    LET split_cols == [j \in 1..Len(row) |-> splitlines(OrEmpty(row[j]))]
        max_len == IF row = <<>> THEN 1
                   ELSE MaxOf({ Len(split_cols[j]) : j \in 1..Len(row) })
    IN  IF max_len <= 1 THEN <<row>>
        ELSE [i \in 1..max_len |->
                [j \in 1..Len(row) |->
                    IF i <= Len(split_cols[j]) THEN Strip(split_cols[j][i]) ELSE <<>>]]

\* _KATAKANA_RANGE.fullmatch(t)
_is_short_kana_fragment(s) ==
    LET t == NFKC(Strip(OrEmpty(s)))
    IN  IF t = <<>> THEN FALSE
        ELSE Len(t) <= 3 /\ \A i \in 1..Len(t) : t[i] \in KatakanaBlock

_non_empty_count(row) ==
    Cardinality({ i \in 1..Len(row) : Strip(OrEmpty(row[i])) # <<>> })

\* re.search(r"\bH\d{1,2}\b", s)
YearLike(s) ==
    \E i \in 1..Len(s) : \E n \in 1..2 :
        /\ s[i] = "H"
        /\ i = 1 \/ ~IsWord(s[i - 1])
        /\ i + n <= Len(s)
        /\ \A j \in (i + 1)..(i + n) : IsDigit(s[j])
        /\ i + n = Len(s) \/ ~IsWord(s[i + n + 1])

\* re.search(r"[A-Z]{2,}\d{1,}", s)
ModelLike(s) ==
    \E i \in 3..Len(s) : IsDigit(s[i]) /\ s[i - 1] \in AsciiUpper /\ s[i - 2] \in AsciiUpper

\* is_fragment_row without the tests of the non-empty-cell count
FragmentWhateverCount(row) ==
    \E i \in 1..Len(row) : _is_short_kana_fragment(row[i])

is_fragment_row(row) ==
    IF row = <<>> THEN FALSE
    ELSE LET ne == _non_empty_count(row)
         IN  IF ne = 0 THEN FALSE
             ELSE LET has_frag   == \E i \in 1..Len(row) : _is_short_kana_fragment(row[i])
                      year_like  == \E i \in 1..Len(row) : YearLike(z2h(row[i]))
                      model_like == \E i \in 1..Len(row) : ModelLike(OrEmpty(row[i]))
                  IN  IF has_frag /\ ne <= 3 THEN TRUE
                      ELSE has_frag /\ (year_like \/ model_like) /\ ne <= 4

\* MergeCell without the short-kana test: two texts are joined with a space
MergeCellSpaced(o, f) ==
    LET a == Strip(OrEmpty(o))
        b == Strip(OrEmpty(f))
    IN  IF b = <<>> THEN o
        ELSE IF a = <<>> THEN b
        ELSE IF ~Contains(b, a) THEN a \o <<" ">> \o b
        ELSE o

\* one column of merge_fragment_row: out[i] after the loop body
MergeCell(o, f) ==
    LET a == Strip(OrEmpty(o))
        b == Strip(OrEmpty(f))
    IN  IF b = <<>> THEN o
        ELSE IF a = <<>> THEN b
        ELSE IF _is_short_kana_fragment(a) \/ _is_short_kana_fragment(b) THEN a \o b
        ELSE IF ~Contains(b, a) THEN a \o <<" ">> \o b
        ELSE o

merge_fragment_row(prev, frag) ==
    LET cols  == IF Len(prev) > Len(frag) THEN Len(prev) ELSE Len(frag)
        out   == [i \in 1..cols |-> IF i <= Len(prev) THEN prev[i] ELSE <<>>]
        frag2 == [i \in 1..cols |-> IF i <= Len(frag) THEN frag[i] ELSE <<>>]
    IN  [i \in 1..cols |-> MergeCell(out[i], frag2[i])]

\* ------------------------------------------------------------------------
\* parser.py: maker salvage
\* ------------------------------------------------------------------------

\* the position after the white space of s that starts at position i
SkipSpace(s, i) == MinOf({ j \in i..(Len(s) + 1) : j > Len(s) \/ ~IsSpace(s[j]) })

\* (?:出品\s*No\.?\s*|No\.?\s*|#|＃|№)? at position i: the position after the
\* label, i itself when no label is there
AfterLotLabel(s, i) ==
    LET At(j, w) == j + Len(w) - 1 <= Len(s) /\ SubSeq(s, j, j + Len(w) - 1) = w
        No(j)    == IF At(j, <<"N", "o">>)
                    THEN SkipSpace(s, IF At(j + 2, <<".">>) THEN j + 3 ELSE j + 2)
                    ELSE 0
    IN  IF At(i, <<"U+51FA", "U+54C1">>) /\ No(SkipSpace(s, i + 2)) > 0
        THEN No(SkipSpace(s, i + 2))
        ELSE IF No(i) > 0 THEN No(i)
        ELSE IF At(i, <<"#">>) \/ At(i, <<"U+FF03">>) \/ At(i, <<"U+2116">>) THEN i + 1
        ELSE i

\* re.sub(r"^\s*(?:...)?\s*\d{3,7}", "", text).strip()
_strip_leading_lot_tokens(text) ==
    LET p0 == SkipSpace(text, 1)
        \* with the label, and when the digits do not follow it, without
        Try(p) == LET q == SkipSpace(text, p)
                      run == DigitRun(text, q, 7)
                  IN  IF Len(run) >= 3 THEN q + Len(run) ELSE 0
        withLabel == Try(AfterLotLabel(text, p0))
        cut == IF withLabel > 0 THEN withLabel ELSE Try(p0)
    IN  IF cut > 0 THEN Strip(Suffix(text, cut - 1)) ELSE Strip(text)

\* Dict[str, str] in insertion order: the makers by their NFKC form
_KNOWN_MAKERS_NORM ==
    [k \in 1..Len(KNOWN_MAKERS) |-> [mk_norm |-> NFKC(KNOWN_MAKERS[k]), mk_orig |-> KNOWN_MAKERS[k]]]

\* _complete_maker_prefix that takes the first candidate when there are several
CompleteFirstCandidate(token_norm) ==
    LET cands == { k \in 1..Len(_KNOWN_MAKERS_NORM) :
                     StartsWith(_KNOWN_MAKERS_NORM[k].mk_norm, token_norm) }
    IN  IF cands # {} THEN _KNOWN_MAKERS_NORM[MinOf(cands)].mk_orig ELSE None

_complete_maker_prefix(token_norm) ==
    LET cands == { k \in 1..Len(_KNOWN_MAKERS_NORM) :
                     StartsWith(_KNOWN_MAKERS_NORM[k].mk_norm, token_norm) }
    IN  IF Cardinality(cands) = 1 THEN _KNOWN_MAKERS_NORM[MinOf(cands)].mk_orig ELSE None

_lead2_norm(s) == Prefix(_norm_jp(z2h(s)), 2)

\* the fragment-join loop over the adjacent pairs of cells: the maker of the
\* first pair and first rule that match, None when none does
FragmentJoin(cells) ==
    LET Rule(i, r) ==
            LET a == _lead2_norm(cells[i])
                b == _lead2_norm(cells[i + 1])
                a_dev == _devoice_katakana(a)
                b_dev == _devoice_katakana(b)
                fragA == MAKER_FRAGMENT_RULES[r].fragA
                fragB == MAKER_FRAGMENT_RULES[r].fragB
            IN  \/ EndsWith(a, fragA) /\ (StartsWith(b, fragB) \/ Contains(fragB, b))
                \/ EndsWith(a_dev, fragA) /\ (StartsWith(b_dev, fragB) \/ Contains(fragB, b_dev))
        nr   == Len(MAKER_FRAGMENT_RULES)
        hits == { (i - 1) * nr + r : i \in 1..(Len(cells) - 1), r \in 1..nr }
        hit  == { h \in hits : Rule(((h - 1) \div nr) + 1, ((h - 1) % nr) + 1) }
    IN  IF hit = {} THEN None ELSE MAKER_FRAGMENT_RULES[((MinOf(hit) - 1) % nr) + 1].mk

\* the containment loop: the first maker, in the order of KNOWN_MAKERS, whose
\* name is in the text or in its devoiced form, with the text left over
MakerContained(text_norm) ==
    LET text_dev == _devoice_katakana(text_norm)
        hit == { k \in 1..Len(_KNOWN_MAKERS_NORM) :
                   \/ Contains(_KNOWN_MAKERS_NORM[k].mk_norm, text_norm)
                   \/ Contains(_KNOWN_MAKERS_NORM[k].mk_norm, text_dev) }
    IN  IF hit = {} THEN [mk |-> None, car_rest |-> None]
        ELSE LET m == _KNOWN_MAKERS_NORM[MinOf(hit)]
                 rest == Strip(Replace(text_norm, m.mk_norm, <<>>))
             IN  [mk |-> m.mk_orig, car_rest |-> IF rest = <<>> THEN None ELSE rest]

\* the sliding window over the kana and kanji of head_norm: n = 3, then n = 2
WindowSalvage(head_norm) ==
    LET tokens == SelectSeq(head_norm, LAMBDA c : c \in KatakanaBlock \cup KanjiChars)
        At(n, i) == LET t == SubSeq(tokens, i + 1, i + n)
                        m == _complete_maker_prefix(t)
                    IN  IF m # None THEN m ELSE _complete_maker_prefix(_devoice_katakana(t))
        Limit(n) == LET l == IF Len(tokens) - n + 1 > 0 THEN Len(tokens) - n + 1 ELSE 0
                    IN  IF l < 6 THEN l ELSE 6
        Hit(n)   == { i \in 0..(Limit(n) - 1) : At(n, i) # None }
    IN  IF Hit(3) # {} THEN At(3, MinOf(Hit(3)))
        ELSE IF Hit(2) # {} THEN At(2, MinOf(Hit(2)))
        ELSE None

\* salvage_maker_from_row_cells with a fragment join that returns what is left
\* of the joined cells beside the maker
SalvageJoinLeftover(row0) ==
    LET row == _strip_noise_row(row0)
        first6 == [i \in 1..(IF Len(row) < 6 THEN Len(row) ELSE 6) |-> OrEmpty(row[i])]
        head_norm == _norm_jp(_strip_leading_lot_tokens(z2h(Join(first6))))
        all_join  == Strip(JoinWith(<<" ">>, SelectSeq(row, LAMBDA c : c # <<>>)))
        all_norm  == _norm_jp(_strip_leading_lot_tokens(z2h(all_join)))
        Left(mk)  == LET rest == Strip(Replace(head_norm, NFKC(mk), <<>>))
                     IN  IF rest = <<>> THEN None ELSE rest
    IN  IF row = <<>> \/ \A i \in 1..Len(row) : Strip(OrEmpty(row[i])) = <<>>
        THEN [mk |-> None, car_rest |-> None]
        ELSE IF FragmentJoin(first6) # None
        THEN [mk |-> FragmentJoin(first6), car_rest |-> Left(FragmentJoin(first6))]
        ELSE IF MakerContained(head_norm).mk # None
        THEN MakerContained(head_norm)
        ELSE IF MakerContained(all_norm).mk # None
        THEN MakerContained(all_norm)
        ELSE [mk |-> WindowSalvage(head_norm), car_rest |-> None]

\* salvage_maker_from_row_cells with the containment in the first six cells
\* tried before the fragment join
SalvageContainmentFirst(row0) ==
    LET row == _strip_noise_row(row0)
        first6 == [i \in 1..(IF Len(row) < 6 THEN Len(row) ELSE 6) |-> OrEmpty(row[i])]
        head_norm == _norm_jp(_strip_leading_lot_tokens(z2h(Join(first6))))
        all_join  == Strip(JoinWith(<<" ">>, SelectSeq(row, LAMBDA c : c # <<>>)))
        all_norm  == _norm_jp(_strip_leading_lot_tokens(z2h(all_join)))
    IN  IF row = <<>> \/ \A i \in 1..Len(row) : Strip(OrEmpty(row[i])) = <<>>
        THEN [mk |-> None, car_rest |-> None]
        ELSE IF MakerContained(head_norm).mk # None
        THEN MakerContained(head_norm)
        ELSE IF FragmentJoin(first6) # None
        THEN [mk |-> FragmentJoin(first6), car_rest |-> None]
        ELSE IF MakerContained(all_norm).mk # None
        THEN MakerContained(all_norm)
        ELSE [mk |-> WindowSalvage(head_norm), car_rest |-> None]

salvage_maker_from_row_cells(row0) ==
    LET row == _strip_noise_row(row0)
        first6 == [i \in 1..(IF Len(row) < 6 THEN Len(row) ELSE 6) |-> OrEmpty(row[i])]
        lead5  == [i \in 1..(IF Len(row) < 5 THEN Len(row) ELSE 5) |-> OrEmpty(row[i])]
        head_norm == _norm_jp(_strip_leading_lot_tokens(z2h(Join(first6))))
        all_join  == Strip(JoinWith(<<" ">>, SelectSeq(row, LAMBDA c : c # <<>>)))
        all_norm  == _norm_jp(_strip_leading_lot_tokens(z2h(all_join)))
    IN  IF row = <<>> \/ \A i \in 1..Len(row) : Strip(OrEmpty(row[i])) = <<>>
        THEN [mk |-> None, car_rest |-> None]
        ELSE IF FragmentJoin(first6) # None
        THEN [mk |-> FragmentJoin(first6), car_rest |-> None]
        ELSE IF MakerContained(head_norm).mk # None
        THEN MakerContained(head_norm)
        ELSE IF FragmentJoin(lead5) # None
        THEN [mk |-> FragmentJoin(lead5), car_rest |-> None]
        ELSE IF MakerContained(all_norm).mk # None
        THEN MakerContained(all_norm)
        ELSE [mk |-> WindowSalvage(head_norm), car_rest |-> None]

\* v[k] = x
DictSet(v, k, x) == [j \in DOMAIN v \cup { k } |-> IF j = k THEN x ELSE v[j]]

\* salvage_maker_from_car_name_prefix without the test of rest: car_name
\* becomes the remainder also when nothing remains
SplitPrefixEmptyRest(v) ==
    LET name == Strip(OrEmpty(Get(v, "car_name")))
        name_norm == _norm_jp(z2h(name))
        name_dev  == _devoice_katakana(name_norm)
        hit == { k \in 1..Len(_KNOWN_MAKERS_NORM) :
                   \/ StartsWith(name_norm, _KNOWN_MAKERS_NORM[k].mk_norm)
                   \/ StartsWith(name_dev, _KNOWN_MAKERS_NORM[k].mk_norm) }
    IN  IF name = <<>> \/ Truthy(Get(v, "maker")) THEN v
        ELSE IF hit = {} THEN v
        ELSE LET m == _KNOWN_MAKERS_NORM[MinOf(hit)]
                 rest == Strip(Suffix(name_norm, Len(m.mk_norm)))
             IN  DictSet(DictSet(v, "maker", m.mk_orig), "car_name", rest)

\* salvage_maker_from_car_name_prefix without the test of v.get("maker")
SplitPrefixAlways(v) ==
    LET name == Strip(OrEmpty(Get(v, "car_name")))
        name_norm == _norm_jp(z2h(name))
        name_dev  == _devoice_katakana(name_norm)
        hit == { k \in 1..Len(_KNOWN_MAKERS_NORM) :
                   \/ StartsWith(name_norm, _KNOWN_MAKERS_NORM[k].mk_norm)
                   \/ StartsWith(name_dev, _KNOWN_MAKERS_NORM[k].mk_norm) }
    IN  IF name = <<>> \/ hit = {} THEN v
        ELSE LET m == _KNOWN_MAKERS_NORM[MinOf(hit)]
                 rest == Strip(Suffix(name_norm, Len(m.mk_norm)))
                 v1 == DictSet(v, "maker", m.mk_orig)
             IN  IF rest # <<>> THEN DictSet(v1, "car_name", rest) ELSE v1

\* the dict v after the call (the code updates it in place)
salvage_maker_from_car_name_prefix(v) ==
    LET name == Strip(OrEmpty(Get(v, "car_name")))
        name_norm == _norm_jp(z2h(name))
        name_dev  == _devoice_katakana(name_norm)
        hit == { k \in 1..Len(_KNOWN_MAKERS_NORM) :
                   \/ StartsWith(name_norm, _KNOWN_MAKERS_NORM[k].mk_norm)
                   \/ StartsWith(name_dev, _KNOWN_MAKERS_NORM[k].mk_norm) }
    IN  IF name = <<>> \/ Truthy(Get(v, "maker")) THEN v
        ELSE IF hit = {} THEN v
        ELSE LET m == _KNOWN_MAKERS_NORM[MinOf(hit)]
                 rest == Strip(Suffix(name_norm, Len(m.mk_norm)))
                 v1 == DictSet(v, "maker", m.mk_orig)
             IN  IF rest # <<>> THEN DictSet(v1, "car_name", rest) ELSE v1

\* ------------------------------------------------------------------------
\* parser.py: auction metadata
\* ------------------------------------------------------------------------

\* Optional[date]: <<>> is None, <<y, m, d>> a date
NoDate == <<>>

IsLeap(y) == (y % 4 = 0 /\ y % 100 # 0) \/ y % 400 = 0

DaysIn(y, m) ==
    IF m = 2 THEN (IF IsLeap(y) THEN 29 ELSE 28)
    ELSE IF m \in { 4, 6, 9, 11 } THEN 30 ELSE 31

\* date(y, mo, d) inside try/except: NoDate when it raises ValueError
TryDate(y, mo, d) ==
    IF y >= 1 /\ y <= 9999 /\ mo >= 1 /\ mo <= 12 /\ d >= 1 /\ d <= DaysIn(y, mo)
    THEN <<y, mo, d>> ELSE NoDate

\* (\d{1,2}) at position i, followed by one of the characters of sep: the
\* number of digits it takes, 0 when it does not match
Num12Then(s, i, sep) ==
    LET Ok(n) == /\ i + n <= Len(s)
                 /\ \A j \in i..(i + n - 1) : IsDigit(s[j])
                 /\ s[i + n] \in sep
    IN  IF Ok(2) THEN 2 ELSE IF Ok(1) THEN 1 ELSE 0

\* (20\d{2})[/-](\d{1,2})[/-](\d{1,2}) at position i
IsoAt(t, i) ==
    LET n1 == Num12Then(t, i + 5, { "/", "-" })
        d0 == i + 5 + n1 + 1
    IN  /\ i + 4 <= Len(t)
        /\ t[i] = "2" /\ t[i + 1] = "0" /\ IsDigit(t[i + 2]) /\ IsDigit(t[i + 3])
        /\ t[i + 4] \in { "/", "-" }
        /\ n1 > 0
        /\ d0 <= Len(t) /\ IsDigit(t[d0])

\* marker [\s]* (\d{1,2}) [./年] (\d{1,2}) at position i
EraAt(t, i, marker) ==
    LET q  == SkipSpace(t, i + 1)
        n1 == Num12Then(t, q, { ".", "/", "U+5E74" })
        d0 == q + n1 + 1
    IN  /\ t[i] \in marker
        /\ n1 > 0
        /\ d0 <= Len(t) /\ IsDigit(t[d0])

\* the era date of the leftmost match of the pattern, NoDate when the
\* pattern does not match or date() raises
EraDate(t, marker, base) ==
    LET at == { i \in 1..Len(t) : EraAt(t, i, marker) }
    IN  IF at = {} THEN NoDate
        ELSE LET i  == MinOf(at)
                 q  == SkipSpace(t, i + 1)
                 n1 == Num12Then(t, q, { ".", "/", "U+5E74" })
                 era_year == DigitsValue(SubSeq(t, q, q + n1 - 1))
                 month    == DigitsValue(DigitRun(t, q + n1 + 1, 2))
             IN  TryDate(base + era_year, month, 1)

parse_auction_date(text) ==
    LET t   == z2h(text)
        iso == { i \in 1..Len(t) : IsoAt(t, i) }
        isoDate ==
            IF iso = {} THEN NoDate
            ELSE LET i  == MinOf(iso)
                     n1 == Num12Then(t, i + 5, { "/", "-" })
                 IN  TryDate(DigitsValue(SubSeq(t, i, i + 3)),
                             DigitsValue(SubSeq(t, i + 5, i + 4 + n1)),
                             DigitsValue(DigitRun(t, i + 5 + n1 + 1, 2)))
        \* [Rr令], base 2018
        reiwa  == EraDate(t, { "R", "r", "U+4EE4" }, 2018)
        \* [Hh平成], base 1988
        heisei == EraDate(t, { "H", "h", "U+5E73", "U+6210" }, 1988)
    IN  IF isoDate # NoDate THEN isoDate
        ELSE IF reiwa # NoDate THEN reiwa
        ELSE heisei

\* date.isoformat() is not modelled: the result carries the date itself

\* [぀-ヿ一-鿿]
IsKanaOrKanji(c) == c \in HiraganaBlock \cup KatakanaBlock \cup KanjiChars

\* re.search(r"(USS\s*[..]+|JU\s*[..]+|TAA\s*[..]+)", joined): group 1 of the
\* leftmost match, None when there is none
VenueMatch(joined) ==
    LET At(i, w) == i + Len(w) - 1 <= Len(joined) /\ SubSeq(joined, i, i + Len(w) - 1) = w
        Pre(i) == IF At(i, <<"U", "S", "S">>) THEN 3
                  ELSE IF At(i, <<"J", "U">>) THEN 2
                  ELSE IF At(i, <<"T", "A", "A">>) THEN 3 ELSE 0
        Loc(i) == SkipSpace(joined, i + Pre(i))
        Ok(i)  == Pre(i) > 0 /\ Loc(i) <= Len(joined) /\ IsKanaOrKanji(joined[Loc(i)])
        at     == { i \in 1..Len(joined) : Ok(i) }
    IN  IF at = {} THEN None
        ELSE LET i == MinOf(at)
                 stop == { j \in Loc(i)..Len(joined) : ~IsKanaOrKanji(joined[j]) } \cup { Len(joined) + 1 }
             IN  SubSeq(joined, i, MinOf(stop) - 1)

\* parse_auction_sheet: auction_name from the document text
VenueName(joined) ==
    LET m == VenueMatch(joined)
    IN  IF m = None THEN None ELSE Replace(z2h(m), <<" ">>, <<>>)

\* ------------------------------------------------------------------------
\* parser.py: text fallback
\* ------------------------------------------------------------------------

\* re.sub(r"[ \t　]+", " ", t): a run of blanks becomes one space
RECURSIVE CollapseBlanks(_)
CollapseBlanks(t) ==
    IF t = <<>> THEN <<>>
    ELSE IF t[1] \in { " ", "\t" }
         THEN IF Len(t) > 1 /\ t[2] \in { " ", "\t" }
              THEN CollapseBlanks(Tail(t))
              ELSE <<" ">> \o CollapseBlanks(Tail(t))
         ELSE <<t[1]>> \o CollapseBlanks(Tail(t))

_normalize_text_line(s) == Strip(CollapseBlanks(NFKC(OrEmpty(s))))

\* KEY_LINE.match(line): ^\s*(?:ｷｰ|キー|KEY)\b, ignoring case
KEY_LINE(line) ==
    LET p == SkipSpace(line, 1)
        At(w) == p + Len(w) - 1 <= Len(line) /\ SubSeq(line, p, p + Len(w) - 1) = w
        End(n) == p + n > Len(line) \/ ~IsWord(line[p + n])
    IN  \/ (At(<<"U+FF77", "U+FF70">>) \/ At(<<"キ", "ー">>)) /\ End(2)
        \/ /\ p + 2 <= Len(line)
           /\ line[p] \in { "K", "k" } /\ line[p + 1] \in { "E", "e" } /\ line[p + 2] \in { "Y", "y" }
           /\ End(3)

\* LOT_START.match(line): ^\s*\d{5}\b
LOT_START(line) ==
    LET p == SkipSpace(line, 1)
    IN  /\ p + 4 <= Len(line)
        /\ \A j \in p..(p + 4) : IsDigit(line[j])
        /\ p + 5 > Len(line) \/ ~IsWord(line[p + 5])

\* re.split(r"[ ,]", line), the empty pieces dropped
RECURSIVE SplitTokens(_)
SplitTokens(line) ==
    LET sep == { i \in 1..Len(line) : line[i] \in { " ", "," } }
    IN  IF line = <<>> THEN <<>>
        ELSE IF sep = {} THEN <<line>>
        ELSE LET i == MinOf(sep)
             IN  (IF i = 1 THEN <<>> ELSE <<SubSeq(line, 1, i - 1)>>) \o SplitTokens(Suffix(line, i))

\* the verdict of the loop of _is_option_only on the tokens from position k,
\* with good tokens counted so far
RECURSIVE OptionScan(_, _, _)
OptionScan(toks, k, good) ==
    IF k > Len(toks) THEN good > 0
    ELSE LET t_clean == SelectSeq(toks[k], LAMBDA c : IsWord(c) \/ c \in { "-", ".", "U+FF0E", "U+FF70" })
         IN  IF t_clean = <<>> THEN OptionScan(toks, k + 1, good)
             ELSE IF t_clean \in OPTION_TOKENS THEN OptionScan(toks, k + 1, good + 1)
             ELSE IF t_clean \in { <<"I">>, <<"J">> } THEN OptionScan(toks, k + 1, good + 1)
             ELSE IF Len(t_clean) <= 3 /\ \A i \in 1..Len(t_clean) : t_clean[i] \in AsciiUpper \cup AsciiLower
                  THEN OptionScan(toks, k + 1, good + 1)
             ELSE FALSE

_is_option_only(line) ==
    LET toks == SplitTokens(line)
    IN  IF toks = <<>> THEN FALSE ELSE OptionScan(toks, 1, 0)

\* the loop of group_records from line idx: cur is None or the open group
RECURSIVE GroupScan(_, _, _, _)
GroupScan(raw_lines, idx, grouped, cur) ==
    IF idx > Len(raw_lines)
    THEN IF Truthy(cur) THEN Append(grouped, Strip(cur)) ELSE grouped
    ELSE LET line == _normalize_text_line(raw_lines[idx])
         IN  IF line = <<>> THEN GroupScan(raw_lines, idx + 1, grouped, cur)
             ELSE IF KEY_LINE(line) THEN GroupScan(raw_lines, idx + 1, grouped, cur)
             ELSE IF LOT_START(line)
                  THEN GroupScan(raw_lines, idx + 1,
                                 IF Truthy(cur) THEN Append(grouped, Strip(cur)) ELSE grouped, line)
             ELSE IF cur = None
                  THEN IF _is_option_only(line)
                       THEN GroupScan(raw_lines, idx + 1, grouped, cur)
                       ELSE GroupScan(raw_lines, idx + 1, grouped, line)
             ELSE GroupScan(raw_lines, idx + 1, grouped, cur \o <<" ">> \o line)

\* group_records whose cur starts as "" and not as None
GroupRecordsCurEmpty(raw_lines) == GroupScan(raw_lines, 1, <<>>, <<>>)

group_records(raw_lines) == GroupScan(raw_lines, 1, <<>>, None)

\* parse_auction_sheet, fallback: the maker of one grouped text record
FallbackMaker(rec) == MakerContained(_norm_jp(_strip_leading_lot_tokens(z2h(rec)))).mk

\* ------------------------------------------------------------------------
\* upload.py: helpers of upload_pdf
\* ------------------------------------------------------------------------

\* _safe_int(val, max_abs) of an Optional[int]
_safe_int(val, max_abs) ==
    IF val = NoInt THEN NoInt
    ELSE IF 0 - max_abs <= val[1] /\ val[1] <= max_abs THEN val ELSE NoInt

\* "uss" in (filename or "").lower()
Lower(s) ==
    Translate(s, [c \in AsciiUpper |->
        CHOOSE l \in AsciiLower : \E k \in 1..26 :
            /\ <<"A", "B", "C", "D", "E", "F", "G", "H", "I", "J", "K", "L", "M",
                 "N", "O", "P", "Q", "R", "S", "T", "U", "V", "W", "X", "Y", "Z">>[k] = c
            /\ <<"a", "b", "c", "d", "e", "f", "g", "h", "i", "j", "k", "l", "m",
                 "n", "o", "p", "q", "r", "s", "t", "u", "v", "w", "x", "y", "z">>[k] = l])

\* ------------------------------------------------------------------------
\* Bounds and catalogues of inputs
\* ------------------------------------------------------------------------

\* pages of a document
MaxPages == 2

\* header candidate rows and data rows of a table of SpecTable
MaxHeaderRows == 2

MaxDataRows == 2

\* columns of a row given to is_fragment_row, and of the two rows given to
\* merge_fragment_row, in SpecRows
MaxRowLen == 5

MaxMergeLen == 2

\* columns of a row given to explode_stacked_row in SpecRows
MaxStackedLen == 3

SeqsUpTo(S, n) == UNION { [1..k -> S] : k \in 0..n }

\* 出品番号 メーカー 車名 グレード: four columns, four fields
HDR_FULL ==
    << <<"U+51FA", "U+54C1", "U+756A", "U+53F7">>, <<"メ", "ー", "カ", "ー">>,
       <<"U+8ECA", "U+540D">>, <<"グ", "レ", "ー", "ド">> >>

\* 番号 車名 (none) 評価: three columns, three fields
HDR_THREE ==
    << <<"U+756A", "U+53F7">>, <<"U+8ECA", "U+540D">>, None, <<"U+8A55", "U+4FA1">> >>

\* 出品番号 車番 Lot 車名: four columns, two fields (auction_no three times)
HDR_REPEAT ==
    << <<"U+51FA", "U+54C1", "U+756A", "U+53F7">>, <<"U+8ECA", "U+756A">>,
       <<"L", "o", "t">>, <<" ", "U+8ECA", "U+540D">> >>

HeaderRows == { HDR_FULL, HDR_THREE, HDR_REPEAT }

\* 12345 ホンダ トヨタアクア G: maker given, car name led by another maker
ROW_FULL ==
    << <<"1", "2", "3", "4", "5">>, <<"ホ", "ン", "ダ">>,
       <<"ト", "ヨ", "タ", "ア", "ク", "ア">>, <<"G">> >>

\* (none) (empty) (empty) 4.5: only the last column is filled
ROW_GRADE_ONLY == << None, <<>>, <<" ">>, <<"4", ".", "5">> >>

\* (empty) タ (empty) (none): a fragment of the row above
ROW_FRAGMENT == << <<>>, <<"タ">>, <<>>, None >>

\* two stacked lots and a key line in one row:
\* 12346\n12347\nキー, トヨ\nスズキ, アクア \n ワゴン, S
ROW_STACKED ==
    << <<"1", "2", "3", "4", "6", "\n", "1", "2", "3", "4", "7", "\n", "キ", "ー">>,
       <<"ト", "ヨ", "\n", "ス", "ズ", "キ">>,
       <<"ア", "ク", "ア", " ", "\n", " ", "ワ", "ゴ", "ン">>, <<"S">> >>

\* 12348 (empty) ホンダフィット (empty): the maker is in the car name
ROW_NO_MAKER ==
    << <<"1", "2", "3", "4", "8">>, <<>>, <<"ホ", "ン", "ダ", "フ", "ィ", "ッ", "ト">>, <<>> >>

DataRows == { ROW_FULL, ROW_GRADE_ONLY, ROW_FRAGMENT, ROW_STACKED, ROW_NO_MAKER }

\* the tables of SpecTable: header candidate rows, then data rows
TableFamily ==
    { hs \o ds : hs \in SeqsUpTo(HeaderRows, MaxHeaderRows), ds \in SeqsUpTo(DataRows, MaxDataRows) }

\* what page.extract_tables returns in Spec
TBL_NO_HEADER == << << <<"a">>, <<"b">> >>, << <<"c">>, <<"d">> >> >>

TBL_GOOD == << HDR_FULL, ROW_FULL, ROW_FRAGMENT >>

TBL_DISCARDED == << HDR_FULL, ROW_GRADE_ONLY >>

TBL_SALVAGED == << HDR_THREE, ROW_NO_MAKER >>

\* a table of one row
TBL_SHORT == << HDR_FULL >>

\* what page.extract_text returns in Spec
\* USS東京 2024/05/17
TEXT_META ==
    <<"U", "S", "S", "U+6771", "U+4EAC", " ", "2", "0", "2", "4", "/", "0", "5", "/", "1", "7">>

\* 12345 トヨタ プリウス / AW ナビ / 12346 ABC
TEXT_LOTS ==
    <<"1", "2", "3", "4", "5", " ", "ト", "ヨ", "タ", " ", "プ", "リ", "ウ", "ス", "\n",
      "A", "W", " ", "ナ", "ビ", "\n", "1", "2", "3", "4", "6", " ", "A", "B", "C">>

\* what one call of page.extract_text or page.extract_tables does
Raised == [raises |-> TRUE, value |-> <<>>]

Returned(v) == [raises |-> FALSE, value |-> v]

\* the pages of Spec: the outcome of extract_text, and of extract_tables
\* under the "lines" and under the "text" strategy
PAGE_META == [text |-> Returned(TEXT_META), tables |-> << Raised, Returned(<<TBL_GOOD>>) >>]

PAGE_TEXT_ONLY == [text |-> Returned(TEXT_LOTS), tables |-> << Returned(<<>>), Returned(<<>>) >>]

PAGE_NO_HEADER == [text |-> Returned(TEXT_LOTS), tables |-> << Returned(<<TBL_NO_HEADER>>), Raised >>]

PAGE_TWO ==
    [text |-> Raised,
     tables |-> << Returned(<<TBL_DISCARDED>>), Returned(<<TBL_SALVAGED, TBL_SHORT>>) >>]

PAGE_FAILS == [text |-> Raised, tables |-> << Raised, Raised >>]

PageKinds == { PAGE_META, PAGE_TEXT_ONLY, PAGE_NO_HEADER, PAGE_TWO, PAGE_FAILS }

\* the documents of Spec
Documents == UNION { [1..k -> PageKinds] : k \in 1..MaxPages }

FILE_USS == <<"U", "S", "S", "_", "1", ".", "p", "d", "f">>

FILE_PLAIN == <<"a", ".", "p", "d", "f">>

FileNames == { FILE_USS, FILE_PLAIN }

\* the cells of the rows given to is_fragment_row in SpecRows, as the row
\* loop passes them (trimmed, noise removed): (empty), タ, ﾊﾟｯｿ, プリウス, H24, KGC35
FragmentCells ==
    { <<>>, <<"タ">>, <<"U+FF8A", "U+FF9F", "U+FF6F", "U+FF7F">>, <<"プ", "リ", "ウ", "ス">>,
      <<"H", "2", "4">>, <<"K", "G", "C", "3", "5">> }

\* the cells of the rows given to explode_stacked_row in SpecRows (trimmed)
StackedCells ==
    { <<>>, <<"a">>, <<"a", "\n", "b">>, <<"a", " ", "\n", " ", "b", "\n", "c">>,
      <<"ア", "\r", "\n", "イ">> }

\* the cells of the two rows given to merge_fragment_row in SpecRows
MergeInputCells ==
    { <<>>, <<"ト", "ヨ">>, <<"タ">>, <<"4", "W", "D">>, <<"4", "W", "D", " ", "A", "T">> }


\* ------------------------------------------------------------------------
\* State
\* ------------------------------------------------------------------------

VARIABLES
    pc,                 \* the position of the request in upload_pdf / parse_auction_sheet
    pdf_valid,          \* whether pdfplumber.open accepts the byte stream
    pages,              \* pdf.pages: what extraction does on each page
    filename,
    all_text, auction_name, auction_date_val,
    any_table_parsed, vehicles,
    page_no,            \* the page of the running loop, from 1
    ts,                 \* the table_settings candidate tried next, from 1
    tables,             \* the tables of the page still to process
    header_row_idx, header_map,
    data_rows,          \* the data rows still to explode
    subs,               \* the exploded rows of one data row still to process
    norm_rows,
    row_i,              \* the position in norm_rows of the row being made a vehicle
    vehicle,
    raised,             \* exceptions parse_auction_sheet has raised to its caller
    result,             \* <<the dict parse_auction_sheet returned>>, <<>> before
    session, committed, \* rows added to the db session; rows committed
    http,               \* the status upload_pdf answered with, 0 before
    call                \* SpecRows: the function applied, its arguments and result

docVars   == <<pdf_valid, pages, filename>>
metaVars  == <<all_text, auction_name, auction_date_val>>
tableVars == <<header_row_idx, header_map, data_rows, subs, norm_rows>>
dbVars    == <<session, committed, http>>

vars ==
    <<pc, pdf_valid, pages, filename, all_text, auction_name, auction_date_val,
      any_table_parsed, vehicles, page_no, ts, tables, header_row_idx, header_map,
      data_rows, subs, norm_rows, row_i, vehicle, raised, result, session, committed,
      http, call>>

NoCall == [fn |-> "none", args |-> <<>>, result |-> <<>>]

\* the locals of parse_auction_sheet before its first statement
Locals ==
    /\ all_text = <<>> /\ auction_name = None /\ auction_date_val = NoDate
    /\ any_table_parsed = FALSE /\ vehicles = <<>>
    /\ page_no = 0 /\ ts = 0 /\ tables = <<>>
    /\ header_row_idx = 0 /\ header_map = <<>>
    /\ data_rows = <<>> /\ subs = <<>> /\ norm_rows = <<>>
    /\ row_i = 0 /\ vehicle = <<>>
    /\ raised = 0 /\ result = <<>>
    /\ session = <<>> /\ committed = <<>> /\ http = 0

Init ==
    /\ pc = "upload"
    /\ pdf_valid \in BOOLEAN
    /\ pages \in Documents
    /\ filename \in FileNames
    /\ Locals
    /\ call = NoCall

\* ------------------------------------------------------------------------
\* parse_auction_sheet, one step at a time
\* ------------------------------------------------------------------------

\* upload_pdf: content = await file.read(); parser.parse_auction_sheet(content, file.filename)
UploadRead ==
    /\ pc = "upload"
    /\ pc' = "open"
    /\ UNCHANGED <<docVars, metaVars, any_table_parsed, vehicles, page_no, ts, tables,
                   tableVars, row_i, vehicle, raised, result, dbVars, call>>

\* OpenPdf that accepts every byte stream
OpenPdfAnyBytes ==
    /\ pc = "open"
    /\ pc' = "text"
    /\ page_no' = 1
    /\ UNCHANGED <<docVars, metaVars, any_table_parsed, vehicles, ts, tables,
                   tableVars, row_i, vehicle, raised, result, dbVars, call>>

\* with pdfplumber.open(io.BytesIO(pdf_bytes)) as pdf: raises on a byte stream
\* that is no PDF document
OpenPdf ==
    /\ pc = "open"
    /\ IF pdf_valid
       THEN /\ pc' = "text"
            /\ page_no' = 1
            /\ UNCHANGED raised
       ELSE /\ pc' = "raised"
            /\ raised' = raised + 1
            /\ UNCHANGED page_no
    /\ UNCHANGED <<docVars, metaVars, any_table_parsed, vehicles, ts, tables,
                   tableVars, row_i, vehicle, result, dbVars, call>>

\* the first loop over pdf.pages: the text of one page, "" when extract_text raises
ExtractText ==
    /\ pc = "text"
    /\ LET o == pages[page_no].text
       IN  all_text' = Append(all_text, IF o.raises THEN <<>> ELSE o.value)
    /\ IF page_no < Len(pages)
       THEN page_no' = page_no + 1 /\ pc' = "text"
       ELSE page_no' = page_no /\ pc' = "meta"
    /\ UNCHANGED <<docVars, auction_name, auction_date_val, any_table_parsed, vehicles,
                   ts, tables, tableVars, row_i, vehicle, raised, result, dbVars, call>>

\* venue name and sale date from the joined text; the page loop starts
Metadata ==
    /\ pc = "meta"
    /\ LET joined == JoinWith(<<"\n">>, all_text)
       IN  /\ auction_name' = VenueName(joined)
           /\ auction_date_val' = parse_auction_date(joined)
    /\ any_table_parsed' = FALSE
    /\ page_no' = 1
    /\ ts' = 1
    /\ tables' = <<>>
    /\ pc' = "extract"
    /\ UNCHANGED <<docVars, all_text, vehicles, tableVars, row_i, vehicle, raised,
                   result, dbVars, call>>

\* CollectTables where a strategy that raises also loses the tables found before
CollectOrLose(found, o) == IF o.raises THEN <<>> ELSE found \o o.value

\* for ts in table_settings_candidates: one strategy; "lines" is 1, "text" is 2
CollectTables(found, o) == IF o.raises THEN found ELSE found \o o.value

ExtractTables ==
    /\ pc = "extract"
    /\ tables' = CollectTables(tables, pages[page_no].tables[ts])
    /\ IF ts < 2
       THEN ts' = ts + 1 /\ pc' = "extract"
       ELSE ts' = ts /\ pc' = "page_tables"
    /\ UNCHANGED <<docVars, metaVars, any_table_parsed, vehicles, page_no, tableVars,
                   row_i, vehicle, raised, result, dbVars, call>>

\* where the loops go once the tables `remaining` of the page are left:
\* the next table, the next page, or the code after the page loop
AfterTable(remaining) ==
    IF remaining # <<>>
    THEN pc' = "table" /\ UNCHANGED <<page_no, ts>>
    ELSE IF page_no < Len(pages)
         THEN pc' = "extract" /\ page_no' = page_no + 1 /\ ts' = 1
         ELSE pc' = "fallback" /\ UNCHANGED <<page_no, ts>>

\* if tables: any_table_parsed = True
PageTables ==
    /\ pc = "page_tables"
    /\ any_table_parsed' = (any_table_parsed \/ tables # <<>>)
    /\ AfterTable(tables)
    /\ UNCHANGED <<docVars, metaVars, vehicles, tables, tableVars, row_i, vehicle,
                   raised, result, dbVars, call>>

\* for tbl in tables: the table is skipped, or its header row is chosen
SelectHeader ==
    /\ pc = "table"
    /\ LET tbl  == Head(tables)
           rest == Tail(tables)
           h    == DetectHeader(tbl)
       IN  /\ tables' = rest
           /\ IF Len(tbl) < 2
              THEN /\ AfterTable(rest)
                   /\ UNCHANGED tableVars
              ELSE /\ header_row_idx' = h.header_row_idx
                   /\ header_map' = h.header_map
                   /\ IF DOMAIN h.header_map = {}
                      THEN /\ AfterTable(rest)
                           /\ UNCHANGED <<data_rows, subs, norm_rows>>
                      ELSE /\ data_rows' = SubSeq(tbl, h.header_row_idx + 2, Len(tbl))
                           /\ subs' = <<>>
                           /\ norm_rows' = <<>>
                           /\ IF h.header_row_idx + 2 > Len(tbl)
                              THEN AfterTable(rest)
                              ELSE pc' = "rows" /\ UNCHANGED <<page_no, ts>>
    /\ UNCHANGED <<docVars, metaVars, any_table_parsed, vehicles, row_i, vehicle,
                   raised, result, dbVars, call>>

\* for r in data_rows: base_row, explode_stacked_row(base_row)
ExplodeRow ==
    /\ pc = "rows"
    /\ subs = <<>>
    /\ data_rows # <<>>
    /\ subs' = explode_stacked_row(StripRow(Head(data_rows)))
    /\ data_rows' = Tail(data_rows)
    /\ UNCHANGED <<pc, docVars, metaVars, any_table_parsed, vehicles, page_no, ts, tables,
                   header_row_idx, header_map, norm_rows, row_i, vehicle, raised,
                   result, dbVars, call>>

\* ReconstructStep without the merge: a fragment row is retained as a row
ReconstructNoMerge(rows, sub0) ==
    LET sub == _strip_noise_row(sub0)
    IN  IF \A i \in 1..Len(sub) : Strip(OrEmpty(sub[i])) = <<>> THEN rows
        ELSE Append(rows, sub)

\* the body of "for sub in explode_stacked_row(base_row)": norm_rows after it
ReconstructStep(rows, sub0) ==
    LET sub == _strip_noise_row(sub0)
    IN  IF \A i \in 1..Len(sub) : Strip(OrEmpty(sub[i])) = <<>> THEN rows
        ELSE IF rows # <<>> /\ is_fragment_row(sub)
        THEN [rows EXCEPT ![Len(rows)] = merge_fragment_row(rows[Len(rows)], sub)]
        ELSE Append(rows, sub)

ReconstructRow ==
    /\ pc = "rows"
    /\ subs # <<>>
    /\ norm_rows' = ReconstructStep(norm_rows, Head(subs))
    /\ subs' = Tail(subs)
    /\ IF Tail(subs) = <<>> /\ data_rows = <<>>
       THEN IF norm_rows' = <<>>
            THEN AfterTable(tables) /\ UNCHANGED row_i
            ELSE pc' = "coerce" /\ row_i' = 1 /\ UNCHANGED <<page_no, ts>>
       ELSE UNCHANGED <<pc, row_i, page_no, ts>>
    /\ UNCHANGED <<docVars, metaVars, any_table_parsed, vehicles, tables, header_row_idx,
                   header_map, data_rows, vehicle, raised, result, dbVars, call>>

\* for row in norm_rows: vehicle = coerce_row_to_vehicle(row, header_map)
CoerceRow ==
    /\ pc = "coerce"
    /\ vehicle' = coerce_row_to_vehicle(norm_rows[row_i], header_map)
    /\ pc' = "salvage_cells"
    /\ UNCHANGED <<docVars, metaVars, any_table_parsed, vehicles, page_no, ts, tables,
                   tableVars, row_i, raised, result, dbVars, call>>

\* if not vehicle.get("maker"): ... salvage_maker_from_row_cells(row)
SalvageInto(v, mk, car_rest) ==
    IF ~Truthy(mk) THEN v
    ELSE IF ~Truthy(Get(v, "car_name")) /\ Truthy(car_rest)
    THEN DictSet(DictSet(v, "maker", mk), "car_name", car_rest)
    ELSE DictSet(v, "maker", mk)

SalvageFound(v, s) == SalvageInto(v, s.mk, s.car_rest)

SalvageFromCells(v, row) ==
    IF Truthy(Get(v, "maker")) THEN v
    ELSE SalvageFound(v, salvage_maker_from_row_cells(row))

SalvageCells ==
    /\ pc = "salvage_cells"
    /\ vehicle' = SalvageFromCells(vehicle, norm_rows[row_i])
    /\ pc' = "salvage_prefix"
    /\ UNCHANGED <<docVars, metaVars, any_table_parsed, vehicles, page_no, ts, tables,
                   tableVars, row_i, raised, result, dbVars, call>>

SalvagePrefix ==
    /\ pc = "salvage_prefix"
    /\ vehicle' = salvage_maker_from_car_name_prefix(vehicle)
    /\ pc' = "min_field"
    /\ UNCHANGED <<docVars, metaVars, any_table_parsed, vehicles, page_no, ts, tables,
                   tableVars, row_i, raised, result, dbVars, call>>

\* any(vehicle.get(k) for k in ("auction_no", "car_name", "maker"))
HasMinimumField(v) ==
    \E k \in { "auction_no", "car_name", "maker" } : Truthy(Get(v, k))

\* Retain without the minimum-field test: every row becomes a vehicle
RetainEveryRow(vs, v, row) == Append(vs, DictSet(v, "raw_extracted_json", [row |-> row]))

\* the vehicles after the minimum-field test of one row
Retain(vs, v, row) ==
    IF ~HasMinimumField(v) THEN vs
    ELSE Append(vs, DictSet(v, "raw_extracted_json", [row |-> row]))

RetainOrDiscard ==
    /\ pc = "min_field"
    /\ vehicles' = Retain(vehicles, vehicle, norm_rows[row_i])
    /\ IF row_i < Len(norm_rows)
       THEN row_i' = row_i + 1 /\ pc' = "coerce" /\ UNCHANGED <<page_no, ts>>
       ELSE AfterTable(tables) /\ UNCHANGED row_i
    /\ UNCHANGED <<docVars, metaVars, any_table_parsed, tables, tableVars, vehicle,
                   raised, result, dbVars, call>>

\* FallbackRuns without the any_table_parsed test
FallbackWhenNoVehicle(parsed, vs) == vs = <<>>

\* if not any_table_parsed and not vehicles
FallbackRuns(parsed, vs) == ~parsed /\ vs = <<>>

\* the vehicles of the text records that name a maker
RECURSIVE FallbackVehicles(_)
FallbackVehicles(recs) ==
    IF recs = <<>> THEN <<>>
    ELSE LET mk == FallbackMaker(Head(recs))
         IN  (IF Truthy(mk)
              THEN << ("maker" :> mk) @@ ("raw_extracted_json" :> [text_record |-> Head(recs)]) >>
              ELSE <<>>) \o FallbackVehicles(Tail(recs))

\* lines.extend([ln for ln in (p or "").splitlines()]) for p in all_text
RECURSIVE AllLines(_)
AllLines(texts) ==
    IF texts = <<>> THEN <<>> ELSE splitlines(Head(texts)) \o AllLines(Tail(texts))

TextFallback ==
    /\ pc = "fallback"
    /\ vehicles' = IF FallbackRuns(any_table_parsed, vehicles)
                   THEN FallbackVehicles(group_records(AllLines(all_text)))
                   ELSE vehicles
    /\ pc' = "return"
    /\ UNCHANGED <<docVars, metaVars, any_table_parsed, page_no, ts, tables, tableVars,
                   row_i, vehicle, raised, result, dbVars, call>>

\* the file-name fallback of auction_name, and the returned dict
Return ==
    /\ pc = "return"
    /\ auction_name' = IF ~Truthy(auction_name) /\ Contains(<<"u", "s", "s">>, Lower(filename))
                       THEN <<"U", "S", "S">> ELSE auction_name
    /\ result' = << [file_name |-> filename, auction_name |-> auction_name',
                     auction_date |-> auction_date_val, vehicles |-> vehicles] >>
    /\ pc' = "returned"
    /\ UNCHANGED <<docVars, all_text, auction_date_val, any_table_parsed, vehicles,
                   page_no, ts, tables, tableVars, row_i, vehicle, raised, dbVars, call>>

\* ------------------------------------------------------------------------
\* upload_pdf after the parse
\* ------------------------------------------------------------------------

\* except Exception as e: raise HTTPException(status_code=400, ...)
UploadParseFailed ==
    /\ pc = "raised"
    /\ http' = 400
    /\ pc' = "done"
    /\ UNCHANGED <<docVars, metaVars, any_table_parsed, vehicles, page_no, ts, tables,
                   tableVars, row_i, vehicle, raised, result, session, committed, call>>

\* int(str(val).strip()) of a str inside _safe_int: an optional sign, then digits
IntOfStr(s) ==
    LET t  == Strip(s)
        ds == IF t # <<>> /\ t[1] \in { "-", "+" } THEN Tail(t) ELSE t
    IN  IF ds # <<>> /\ \A i \in 1..Len(ds) : ds[i] \in AsciiDigits
        THEN SomeInt(IF t[1] = "-" THEN 0 - DigitsValue(ds) ELSE DigitsValue(ds))
        ELSE NoInt

\* db.add(sheet); db.flush()
UploadAddSheet ==
    /\ pc = "returned"
    /\ session' = Append(session, [table |-> "auction_sheets", file_name |-> result[1].file_name,
                                   auction_name |-> result[1].auction_name,
                                   auction_date |-> result[1].auction_date])
    /\ pc' = "add_vehicles"
    /\ UNCHANGED <<docVars, metaVars, any_table_parsed, vehicles, page_no, ts, tables,
                   tableVars, row_i, vehicle, raised, result, committed, http, call>>

\* no value of a parsed vehicle holds a line break (explode_stacked_row has
\* split them): _expand_by_index finds max_len == 1 and returns [v]
_expand_by_index(v) == <<v>>

RECURSIVE Expanded(_)
Expanded(vs) == IF vs = <<>> THEN <<>> ELSE _expand_by_index(Head(vs)) \o Expanded(Tail(vs))

\* vo = Vehicle(...)
VehicleRow(v) ==
    [table |-> "vehicles",
     auction_no |-> IF Get(v, "auction_no") = None THEN NoInt
                    ELSE _safe_int(IntOfStr(Get(v, "auction_no")), 9999999),
     maker |-> Get(v, "maker"),
     car_name |-> Get(v, "car_name"),
     grade |-> Get(v, "grade"),
     model_code |-> Get(v, "model_code"),
     year |-> IF "year" \in DOMAIN v THEN _safe_int(v["year"], 3000) ELSE NoInt,
     mileage_km |-> IF "mileage_km" \in DOMAIN v THEN _safe_int(v["mileage_km"], 10000000) ELSE NoInt,
     color |-> Get(v, "color"),
     shift |-> Get(v, "shift"),
     inspection_until |-> Get(v, "inspection_until"),
     score |-> Get(v, "score"),
     start_price_yen |-> IF "start_price_yen" \in DOMAIN v
                         THEN _safe_int(v["start_price_yen"], 1000000000) ELSE NoInt,
     raw_extracted_json |-> v["raw_extracted_json"]]

\* for v in expanded: db.add(vo); db.flush(). The response objects
\* (VehicleOut, AuctionSheetOut) built next to the rows are not modelled.
UploadAddVehicle ==
    /\ pc = "add_vehicles"
    /\ Len(session) - 1 < Len(Expanded(result[1].vehicles))
    /\ session' = Append(session, VehicleRow(Expanded(result[1].vehicles)[Len(session)]))
    /\ UNCHANGED <<pc, docVars, metaVars, any_table_parsed, vehicles, page_no, ts, tables,
                   tableVars, row_i, vehicle, raised, result, committed, http, call>>

\* db.commit(); return payload
UploadCommit ==
    /\ pc = "add_vehicles"
    /\ Len(session) - 1 = Len(Expanded(result[1].vehicles))
    /\ committed' = committed \o session
    /\ session' = <<>>
    /\ http' = 200
    /\ pc' = "done"
    /\ UNCHANGED <<docVars, metaVars, any_table_parsed, vehicles, page_no, ts, tables,
                   tableVars, row_i, vehicle, raised, result, call>>

Next ==
    \/ UploadRead \/ OpenPdf \/ ExtractText \/ Metadata \/ ExtractTables \/ PageTables
    \/ SelectHeader \/ ExplodeRow \/ ReconstructRow
    \/ CoerceRow \/ SalvageCells \/ SalvagePrefix \/ RetainOrDiscard
    \/ TextFallback \/ Return
    \/ UploadParseFailed \/ UploadAddSheet \/ UploadAddVehicle \/ UploadCommit

Spec == Init /\ [][Next]_vars

\* ------------------------------------------------------------------------
\* SpecTable: the table loop on one table of TableFamily
\* ------------------------------------------------------------------------

\* parse_auction_sheet about to process the one table the "lines" strategy
\* found on the only page of a document without text
InitTable ==
    /\ pc = "table"
    /\ pdf_valid = TRUE
    /\ filename = FILE_PLAIN
    /\ \E tbl \in TableFamily :
         /\ pages = << [text |-> Raised, tables |-> << Returned(<<tbl>>), Raised >>] >>
         /\ tables = <<tbl>>
    /\ all_text = << <<>> >> /\ auction_name = None /\ auction_date_val = NoDate
    /\ any_table_parsed = TRUE /\ vehicles = <<>>
    /\ page_no = 1 /\ ts = 2
    /\ header_row_idx = 0 /\ header_map = <<>>
    /\ data_rows = <<>> /\ subs = <<>> /\ norm_rows = <<>>
    /\ row_i = 0 /\ vehicle = <<>>
    /\ raised = 0 /\ result = <<>>
    /\ session = <<>> /\ committed = <<>> /\ http = 0
    /\ call = NoCall

NextTable ==
    \/ SelectHeader \/ ExplodeRow \/ ReconstructRow
    \/ CoerceRow \/ SalvageCells \/ SalvagePrefix \/ RetainOrDiscard

SpecTable == InitTable /\ [][NextTable]_vars

\* ------------------------------------------------------------------------
\* SpecRows: is_fragment_row, explode_stacked_row and merge_fragment_row
\* applied to rows
\* ------------------------------------------------------------------------

InitRows ==
    /\ pc = "rows"
    /\ pdf_valid = TRUE
    /\ filename = FILE_PLAIN
    /\ pages = << PAGE_FAILS >>
    /\ Locals
    /\ \/ \E row \in SeqsUpTo(FragmentCells, MaxRowLen) :
            call = [fn |-> "none", args |-> << "fragment", row >>, result |-> <<>>]
       \/ \E row \in SeqsUpTo(StackedCells, MaxStackedLen) :
            call = [fn |-> "none", args |-> << "stacked", row >>, result |-> <<>>]
       \/ \E prev \in SeqsUpTo(MergeInputCells, MaxMergeLen), frag \in SeqsUpTo(MergeInputCells, MaxMergeLen) :
            call = [fn |-> "none", args |-> << "merge", prev, frag >>, result |-> <<>>]

ProgramUnchanged ==
    UNCHANGED <<pc, docVars, metaVars, any_table_parsed, vehicles, page_no, ts, tables,
                tableVars, row_i, vehicle, raised, result, dbVars>>

CallIsFragmentRow ==
    /\ call.fn = "none" /\ call.args[1] = "fragment"
    /\ call' = [fn |-> "is_fragment_row", args |-> call.args,
                result |-> is_fragment_row(call.args[2])]
    /\ ProgramUnchanged

CallExplodeStackedRow ==
    /\ call.fn = "none" /\ call.args[1] = "stacked"
    /\ call' = [fn |-> "explode_stacked_row", args |-> call.args,
                result |-> explode_stacked_row(call.args[2])]
    /\ ProgramUnchanged

CallMergeFragmentRow ==
    /\ call.fn = "none" /\ call.args[1] = "merge"
    /\ call' = [fn |-> "merge_fragment_row", args |-> call.args,
                result |-> merge_fragment_row(call.args[2], call.args[3])]
    /\ ProgramUnchanged

NextRows == CallIsFragmentRow \/ CallExplodeStackedRow \/ CallMergeFragmentRow

SpecRows == InitRows /\ [][NextRows]_vars

\* ------------------------------------------------------------------------
\* SpecSalvage: salvage_maker_from_row_cells, salvage_maker_from_car_name_prefix
\* and the salvage step of the row loop applied to rows and vehicle dicts
\* ------------------------------------------------------------------------

\* the longest row of SalvageInputCells given to the salvage functions
MaxSalvageLen == 3

\* the cells of the rows given to salvage_maker_from_row_cells: (empty), トヨ,
\* タ アクア, ホンダ フィット, 12345, ドヨ, フォ, フォル
SalvageInputCells ==
    { <<>>,
      <<"ト", "ヨ">>,
      <<"タ", " ", "ア", "ク", "ア">>,
      <<"ホ", "ン", "ダ", " ", "フ", "ィ", "ッ", "ト">>,
      <<"1", "2", "3", "4", "5">>,
      <<"ド", "ヨ">>,
      <<"フ", "ォ">>,
      <<"フ", "ォ", "ル">> }

\* the cells before them in the row: none, one empty cell, or five cells "AT", which puts
\* the first cell of SalvageInputCells sixth and the others outside row[:6]
SalvagePads == { <<>>, << <<>> >>, [i \in 1..5 |-> <<"A", "T">>] }

\* the vehicle dicts the salvage step gets from coerce_row_to_vehicle: no
\* mapped column, an empty car_name, car_name プリウス, maker ホンダ
SalvageVehicles ==
    { <<>>,
      [k \in { "car_name" } |-> <<>>],
      [k \in { "car_name" } |-> <<"プ", "リ", "ウ", "ス">>],
      [k \in { "maker" } |-> <<"ホ", "ン", "ダ">>] }

SalvageRows == { pad \o r : pad \in SalvagePads, r \in SeqsUpTo(SalvageInputCells, MaxSalvageLen) }

\* the rows of the salvage step: those of at most six cells
SalvageStepRows == { row \in SalvageRows : Len(row) <= 6 }

\* the windows given to _complete_maker_prefix: (empty), 三菱, 三菱ふ, フォ, フォル,
\* ドヨ, トヨ, ボル, アア
WindowTokens ==
    { <<>>,
      <<"U+4E09", "U+83F1">>,
      <<"U+4E09", "U+83F1", "U+3075">>,
      <<"フ", "ォ">>,
      <<"フ", "ォ", "ル">>,
      <<"ド", "ヨ">>,
      <<"ト", "ヨ">>,
      <<"ボ", "ル">>,
      <<"ア", "ア">> }

\* the car names of the vehicle dicts given to
\* salvage_maker_from_car_name_prefix: (empty), (blank), ホンダ,
\* ホンダ フィット RS, ドヨタ アクア, プリウス, ﾎﾝﾀﾞ ﾌｨｯﾄ, 三菱ふそう キャンター
PrefixCarNames ==
    { <<>>,
      <<" ">>,
      <<"ホ", "ン", "ダ">>,
      <<"ホ", "ン", "ダ", " ", "フ", "ィ", "ッ", "ト", " ", "R", "S">>,
      <<"ド", "ヨ", "タ", " ", "ア", "ク", "ア">>,
      <<"プ", "リ", "ウ", "ス">>,
      <<"U+FF8E", "U+FF9D", "U+FF80", "U+FF9E", " ", "U+FF8C", "U+FF68", "U+FF6F", "U+FF84">>,
      <<"U+4E09", "U+83F1", "U+3075", "U+305D", "U+3046", " ", "キ", "ャ", "ン", "タ", "ー">> }

\* their makers: (empty), トヨタ
PrefixMakers == { <<>>, <<"ト", "ヨ", "タ">> }

\* the dicts: car_name, maker and grade, each there or not
PrefixVehicles ==
    { [k \in keys |-> cell[k]] :
        keys \in SUBSET { "car_name", "maker", "grade" },
        cell \in [car_name : PrefixCarNames, maker : PrefixMakers, grade : { <<"G">> }] }

InitSalvage ==
    /\ pc = "salvage"
    /\ pdf_valid = TRUE
    /\ filename = FILE_PLAIN
    /\ pages = << PAGE_FAILS >>
    /\ Locals
    /\ \/ \E row \in SalvageRows :
            call = [fn |-> "none", args |-> << "cells", row >>, result |-> <<>>]
       \/ \E v \in SalvageVehicles, row \in SalvageStepRows :
            call = [fn |-> "none", args |-> << "vehicle", v, row >>, result |-> <<>>]
       \/ \E v \in PrefixVehicles :
            call = [fn |-> "none", args |-> << "prefix", v >>, result |-> <<>>]
       \/ \E t \in WindowTokens :
            call = [fn |-> "none", args |-> << "window", t >>, result |-> <<>>]

CallSalvageRowCells ==
    /\ call.fn = "none" /\ call.args[1] = "cells"
    /\ call' = [fn |-> "salvage_maker_from_row_cells", args |-> call.args,
                result |-> salvage_maker_from_row_cells(call.args[2])]
    /\ ProgramUnchanged

\* the salvage step of the row loop on the vehicle dict of one row
CallSalvageFromCells ==
    /\ call.fn = "none" /\ call.args[1] = "vehicle"
    /\ call' = [fn |-> "salvage_step", args |-> call.args,
                result |-> SalvageFromCells(call.args[2], call.args[3])]
    /\ ProgramUnchanged

CallCompleteMakerPrefix ==
    /\ call.fn = "none" /\ call.args[1] = "window"
    /\ call' = [fn |-> "_complete_maker_prefix", args |-> call.args,
                result |-> _complete_maker_prefix(call.args[2])]
    /\ ProgramUnchanged

\* the dict v after salvage_maker_from_car_name_prefix(v)
CallSalvagePrefix ==
    /\ call.fn = "none" /\ call.args[1] = "prefix"
    /\ call' = [fn |-> "salvage_maker_from_car_name_prefix", args |-> call.args,
                result |-> salvage_maker_from_car_name_prefix(call.args[2])]
    /\ ProgramUnchanged

NextSalvage ==
    \/ CallSalvageRowCells \/ CallSalvageFromCells
    \/ CallCompleteMakerPrefix \/ CallSalvagePrefix

SpecSalvage == InitSalvage /\ [][NextSalvage]_vars

\* ------------------------------------------------------------------------
\* SpecCoerce: to_int_or_none, parse_mileage_km, the year branch of
\* coerce_row_to_vehicle, z2h and parse_auction_date applied to texts
\* ------------------------------------------------------------------------

\* the longest text given to the cell functions
MaxTextLen == 4

\* the characters of the texts given to to_int_or_none: 0 1 - a １
IntChars == { "0", "1", "-", "a", "U+FF11" }

\* ... to parse_mileage_km: 8 5 0 . ,
MileageChars == { "8", "5", "0", ".", "," }

\* ... to the year branch: H R 令 和 2 0
YearChars == { "H", "R", "U+4EE4", "U+548C", "2", "0" }

\* ... to z2h: １ － ． (space) a
WidthChars == { "U+FF11", "U+FF0D", "U+FF0E", " ", "a" }

\* the date expressions of the texts given to parse_auction_date: (none),
\* 2024/5/1, 2024-05-01, 2024/13/40, 2024/2/30, 令和6年5月, 令6年5月, R6.5,
\* r 6/5, R6年13, 平成31年4月, H31.4, h31年4月, abc, 6年5月
DateParts ==
    { <<>>,
      <<"2", "0", "2", "4", "/", "5", "/", "1">>,
      <<"2", "0", "2", "4", "-", "0", "5", "-", "0", "1">>,
      <<"2", "0", "2", "4", "/", "1", "3", "/", "4", "0">>,
      <<"2", "0", "2", "4", "/", "2", "/", "3", "0">>,
      <<"U+4EE4", "U+548C", "6", "U+5E74", "5", "U+6708">>,
      <<"U+4EE4", "6", "U+5E74", "5", "U+6708">>,
      <<"R", "6", ".", "5">>,
      <<"r", " ", "6", "/", "5">>,
      <<"R", "6", "U+5E74", "1", "3">>,
      <<"U+5E73", "U+6210", "3", "1", "U+5E74", "4", "U+6708">>,
      <<"H", "3", "1", ".", "4">>,
      <<"h", "3", "1", "U+5E74", "4", "U+6708">>,
      <<"a", "b", "c">>,
      <<"6", "U+5E74", "5", "U+6708">> }

\* a text holds two of them, a space between
DateTexts == { a \o <<" ">> \o b : a \in DateParts, b \in DateParts }

InitCoerce ==
    /\ pc = "coerce_cell"
    /\ pdf_valid = TRUE
    /\ filename = FILE_PLAIN
    /\ pages = << PAGE_FAILS >>
    /\ Locals
    /\ \/ \E s \in SeqsUpTo(IntChars, MaxTextLen) \cup { None } :
            call = [fn |-> "none", args |-> << "int", s >>, result |-> <<>>]
       \/ \E s \in SeqsUpTo(MileageChars, MaxTextLen) \cup { None } :
            call = [fn |-> "none", args |-> << "mileage", s >>, result |-> <<>>]
       \/ \E s \in SeqsUpTo(YearChars, MaxTextLen) \cup { None } :
            call = [fn |-> "none", args |-> << "year", s >>, result |-> <<>>]
       \/ \E s \in SeqsUpTo(WidthChars, MaxTextLen) \cup { None } :
            call = [fn |-> "none", args |-> << "width", s >>, result |-> <<>>]
       \/ \E s \in DateTexts :
            call = [fn |-> "none", args |-> << "date", s >>, result |-> <<>>]

CallToIntOrNone ==
    /\ call.fn = "none" /\ call.args[1] = "int"
    /\ call' = [fn |-> "to_int_or_none", args |-> call.args,
                result |-> to_int_or_none(call.args[2])]
    /\ ProgramUnchanged

CallParseMileageKm ==
    /\ call.fn = "none" /\ call.args[1] = "mileage"
    /\ call' = [fn |-> "parse_mileage_km", args |-> call.args,
                result |-> parse_mileage_km(call.args[2])]
    /\ ProgramUnchanged

\* coerce_row_to_vehicle on a cell of the column mapped to year
CallCoerceYear ==
    /\ call.fn = "none" /\ call.args[1] = "year"
    /\ call' = [fn |-> "coerce_year", args |-> call.args,
                result |-> CoerceCell("year", call.args[2])]
    /\ ProgramUnchanged

CallZ2h ==
    /\ call.fn = "none" /\ call.args[1] = "width"
    /\ call' = [fn |-> "z2h", args |-> call.args, result |-> << z2h(call.args[2]) >>]
    /\ ProgramUnchanged

\* z2h applied to what z2h returned
CallZ2hAgain ==
    /\ call.fn = "z2h" /\ Len(call.result) = 1
    /\ call' = [call EXCEPT !.result = Append(call.result, z2h(call.result[1]))]
    /\ ProgramUnchanged

CallParseAuctionDate ==
    /\ call.fn = "none" /\ call.args[1] = "date"
    /\ call' = [fn |-> "parse_auction_date", args |-> call.args,
                result |-> parse_auction_date(call.args[2])]
    /\ ProgramUnchanged

NextCoerce ==
    \/ CallToIntOrNone \/ CallParseMileageKm \/ CallCoerceYear
    \/ CallZ2h \/ CallZ2hAgain \/ CallParseAuctionDate

SpecCoerce == InitCoerce /\ [][NextCoerce]_vars

\* ------------------------------------------------------------------------
\* SpecTwo: two calls of parse_auction_sheet on two documents, their steps
\* interleaved in any order
\* ------------------------------------------------------------------------

\* the frame of the running call: its arguments, its locals, and where it is
Frame ==
    [ pc |-> pc,
      pdf_valid |-> pdf_valid,
      pages |-> pages,
      filename |-> filename,
      all_text |-> all_text,
      auction_name |-> auction_name,
      auction_date_val |-> auction_date_val,
      any_table_parsed |-> any_table_parsed,
      vehicles |-> vehicles,
      page_no |-> page_no,
      ts |-> ts,
      tables |-> tables,
      header_row_idx |-> header_row_idx,
      header_map |-> header_map,
      data_rows |-> data_rows,
      subs |-> subs,
      norm_rows |-> norm_rows,
      row_i |-> row_i,
      vehicle |-> vehicle,
      raised |-> raised,
      result |-> result ]

\* the frame of a call about to execute its first statement
NewFrame(valid, doc, fname) ==
    [ pc |-> "open", pdf_valid |-> valid, pages |-> doc, filename |-> fname,
      all_text |-> <<>>, auction_name |-> None, auction_date_val |-> NoDate,
      any_table_parsed |-> FALSE, vehicles |-> <<>>, page_no |-> 0, ts |-> 0,
      tables |-> <<>>, header_row_idx |-> 0, header_map |-> <<>>, data_rows |-> <<>>,
      subs |-> <<>>, norm_rows |-> <<>>, row_i |-> 0, vehicle |-> <<>>,
      raised |-> 0, result |-> <<>> ]

\* the call has returned or raised
Finished(frame) == frame.pc \in { "returned", "raised" }

\* the documents of SpecTwo: one page of each kind
OnePageDocuments == { << page >> : page \in PageKinds }

\* the byte streams of SpecTwo: the documents, and one that is no PDF
ByteStreams ==
    { [valid |-> TRUE, doc |-> d] : d \in OnePageDocuments }
        \cup { [valid |-> FALSE, doc |-> << PAGE_FAILS >>] }

\* one call runs, the other waits in call.result: both are at their first
\* statement
InitTwo ==
    /\ pc = "open"
    /\ filename = FILE_PLAIN
    /\ \E b \in ByteStreams : pdf_valid = b.valid /\ pages = b.doc
    /\ Locals
    /\ \E b \in ByteStreams :
         call = [fn |-> "parse_auction_sheet", args |-> << b.doc, FILE_USS >>,
                 result |-> NewFrame(b.valid, b.doc, FILE_USS)]

\* Switch when vehicles is a list of the module and not a local of the call
SwitchSharedVehicles ==
    /\ call.fn = "parse_auction_sheet"
    /\ ~Finished(call.result)
    /\ pc' = call.result.pc
    /\ pdf_valid' = call.result.pdf_valid
    /\ pages' = call.result.pages
    /\ filename' = call.result.filename
    /\ all_text' = call.result.all_text
    /\ auction_name' = call.result.auction_name
    /\ auction_date_val' = call.result.auction_date_val
    /\ any_table_parsed' = call.result.any_table_parsed
    /\ page_no' = call.result.page_no
    /\ ts' = call.result.ts
    /\ tables' = call.result.tables
    /\ header_row_idx' = call.result.header_row_idx
    /\ header_map' = call.result.header_map
    /\ data_rows' = call.result.data_rows
    /\ subs' = call.result.subs
    /\ norm_rows' = call.result.norm_rows
    /\ row_i' = call.result.row_i
    /\ vehicle' = call.result.vehicle
    /\ raised' = call.result.raised
    /\ result' = call.result.result
    /\ call' = [call EXCEPT !.result = Frame]
    /\ UNCHANGED <<vehicles, dbVars>>

\* the running call is suspended with its locals and the waiting one goes
\* on with its own
Switch ==
    /\ call.fn = "parse_auction_sheet"
    /\ ~Finished(call.result)
    /\ pc' = call.result.pc
    /\ pdf_valid' = call.result.pdf_valid
    /\ pages' = call.result.pages
    /\ filename' = call.result.filename
    /\ all_text' = call.result.all_text
    /\ auction_name' = call.result.auction_name
    /\ auction_date_val' = call.result.auction_date_val
    /\ any_table_parsed' = call.result.any_table_parsed
    /\ vehicles' = call.result.vehicles
    /\ page_no' = call.result.page_no
    /\ ts' = call.result.ts
    /\ tables' = call.result.tables
    /\ header_row_idx' = call.result.header_row_idx
    /\ header_map' = call.result.header_map
    /\ data_rows' = call.result.data_rows
    /\ subs' = call.result.subs
    /\ norm_rows' = call.result.norm_rows
    /\ row_i' = call.result.row_i
    /\ vehicle' = call.result.vehicle
    /\ raised' = call.result.raised
    /\ result' = call.result.result
    /\ call' = [call EXCEPT !.result = Frame]
    /\ UNCHANGED dbVars

NextTwo ==
    \/ OpenPdf \/ ExtractText \/ Metadata \/ ExtractTables \/ PageTables
    \/ SelectHeader \/ ExplodeRow \/ ReconstructRow
    \/ CoerceRow \/ SalvageCells \/ SalvagePrefix \/ RetainOrDiscard
    \/ TextFallback \/ Return
    \/ Switch

SpecTwo == InitTwo /\ [][NextTwo]_vars

\* ------------------------------------------------------------------------
\* SpecUpload: one upload request with the failures of its database steps
\* and the end of its session
\* ------------------------------------------------------------------------

\* a statement of upload_pdf between the parse and the return raises: the
\* flush of the sheet row, _expand_by_index, Vehicle(...), the flush of a
\* vehicle row, VehicleOut(...) or db.commit(). Nothing in upload_pdf catches
\* it, the rows flushed so far stay pending in the session
UploadStepFails ==
    /\ pc \in { "returned", "add_vehicles" }
    /\ http' = 500
    /\ pc' = "done"
    /\ UNCHANGED <<docVars, metaVars, any_table_parsed, vehicles, page_no, ts, tables,
                   tableVars, row_i, vehicle, raised, result, session, committed, call>>

\* get_db whose finally commits before it closes
CloseSessionCommits ==
    /\ pc = "done"
    /\ committed' = committed \o session
    /\ session' = <<>>
    /\ pc' = "closed"
    /\ UNCHANGED <<docVars, metaVars, any_table_parsed, vehicles, page_no, ts, tables,
                   tableVars, row_i, vehicle, raised, result, http, call>>

\* get_db: finally: db.close(). The rows that are pending in the session are
\* rolled back
CloseSession ==
    /\ pc = "done"
    /\ session' = <<>>
    /\ pc' = "closed"
    /\ UNCHANGED <<docVars, metaVars, any_table_parsed, vehicles, page_no, ts, tables,
                   tableVars, row_i, vehicle, raised, result, committed, http, call>>

NextUpload ==
    \/ UploadRead \/ OpenPdf \/ ExtractText \/ Metadata \/ ExtractTables \/ PageTables
    \/ SelectHeader \/ ExplodeRow \/ ReconstructRow
    \/ CoerceRow \/ SalvageCells \/ SalvagePrefix \/ RetainOrDiscard
    \/ TextFallback \/ Return
    \/ UploadParseFailed \/ UploadAddSheet \/ UploadAddVehicle \/ UploadCommit
    \/ UploadStepFails \/ CloseSession

SpecUpload == Init /\ [][NextUpload]_vars

\* ------------------------------------------------------------------------
\* SpecGroup: group_records applied to sequences of text lines
\* ------------------------------------------------------------------------

\* lines of raw_lines in SpecGroup
MaxLines == 3

\* the lines of SpecGroup: (empty), (space, tab), KEY, キーレス, 12345 A,
\* １2345, 123456, 12345ト, AW ナビ, プリウス
GroupLines ==
    { <<>>,
      <<" ", "\t">>,
      <<"K", "E", "Y">>,
      <<"キ", "ー", "レ", "ス">>,
      <<"1", "2", "3", "4", "5", " ", "A">>,
      <<"U+FF11", "2", "3", "4", "5">>,
      <<"1", "2", "3", "4", "5", "6">>,
      <<"1", "2", "3", "4", "5", "ト">>,
      <<"A", "W", " ", "ナ", "ビ">>,
      <<"プ", "リ", "ウ", "ス">> }

InitGroup ==
    /\ pc = "group"
    /\ pdf_valid = TRUE
    /\ filename = FILE_PLAIN
    /\ pages = << PAGE_FAILS >>
    /\ Locals
    /\ \E raw_lines \in SeqsUpTo(GroupLines, MaxLines) :
         call = [fn |-> "none", args |-> << "lines", raw_lines >>, result |-> <<>>]

\* recs = group_records(lines)
CallGroupRecords ==
    /\ call.fn = "none" /\ call.args[1] = "lines"
    /\ call' = [fn |-> "group_records", args |-> call.args,
                result |-> group_records(call.args[2])]
    /\ ProgramUnchanged

NextGroup == CallGroupRecords

SpecGroup == InitGroup /\ [][NextGroup]_vars

\* ------------------------------------------------------------------------
\* Properties
\* ------------------------------------------------------------------------

\* the field k of the dict v holds a non-empty text
NonEmptyField(v, k) == k \in DOMAIN v /\ v[k] # None /\ v[k] # <<>>

MinimumFields == { "auction_no", "car_name", "maker" }

\* what the strategy s returned on page p, nothing when it raised
StrategyTables(p, s) ==
    IF pages[p].tables[s].raises THEN <<>> ELSE pages[p].tables[s].value

\* the page loop of parse_auction_sheet is over
AfterPageLoop == pc \in { "fallback", "return", "returned", "add_vehicles", "done" }

\* every vehicle collected or returned has one of the minimum fields
C1_Retained ==
    /\ \A i \in 1..Len(vehicles) : \E k \in MinimumFields : NonEmptyField(vehicles[i], k)
    /\ \A r \in 1..Len(result) : \A i \in 1..Len(result[r].vehicles) :
         \E k \in MinimumFields : NonEmptyField(result[r].vehicles[i], k)

\* testing a row without any of them adds no vehicle
C1_DiscardStep ==
    (pc = "min_field" /\ \A k \in MinimumFields : ~NonEmptyField(vehicle, k))
        => vehicles' = vehicles

\* C1: every vehicle record collected or returned by parse_auction_sheet has
\* a non-empty auction_no, car_name or maker, whichever path produced it; and
\* the step that tests a row whose three fields are all empty after coercion
\* and both salvage steps adds no vehicle, whatever its other fields hold.
C1_MinimumField == []C1_Retained /\ [][C1_DiscardStep]_vars

\* a row with a grade and none of the three fields was tested and left out
C1_Witness ==
    /\ pc = "table"
    /\ row_i >= 1
    /\ NonEmptyField(vehicle, "grade")
    /\ \A k \in MinimumFields : ~NonEmptyField(vehicle, k)
    /\ \A i \in 1..Len(vehicles) : vehicles[i]["raw_extracted_json"].row # norm_rows[row_i]

\* C2: for a byte stream that is no PDF document parse_auction_sheet raises
\* exactly one error and returns nothing (no vehicle, no metadata), and
\* upload_pdf answers 400 with no sheet row and no vehicle row added or
\* committed.
C2_InvalidInput ==
    ~pdf_valid =>
        /\ pc \in { "upload", "open", "raised", "done" }
        /\ raised = (IF pc \in { "raised", "done" } THEN 1 ELSE 0)
        /\ result = <<>> /\ vehicles = <<>>
        /\ auction_name = None /\ auction_date_val = NoDate
        /\ session = <<>> /\ committed = <<>>
        /\ http = (IF pc = "done" THEN 400 ELSE 0)

C2_Witness == ~pdf_valid /\ pc = "done" /\ http = 400 /\ raised = 1 /\ committed = <<>>

\* no extraction strategy returned a table on any page
NoTableOnAnyPage ==
    \A p \in 1..Len(pages) : \A s \in 1..2 : StrategyTables(p, s) = <<>>

\* the vehicles the text fallback makes of the page texts
FallbackOfText == FallbackVehicles(group_records(AllLines(all_text)))

\* the fallback step runs the fallback whenever no vehicle was produced
C3_FallbackStepAsStated ==
    (pc = "fallback" /\ vehicles = <<>>) => vehicles' = FallbackOfText

\* C3 (as stated): whenever the table path has produced no vehicle over all
\* pages, the fallback path is run, also when tables were extracted but none
\* has a usable header.
C3_AsStated == [][C3_FallbackStepAsStated]_vars

\* the fallback step runs the fallback exactly when no table was returned
C3_FallbackStep ==
    pc = "fallback" =>
        vehicles' = (IF NoTableOnAnyPage THEN FallbackOfText ELSE vehicles)

\* no error is raised, and what is returned is the metadata and the vehicles
C3_NoError ==
    pdf_valid =>
        /\ raised = 0
        /\ \A r \in 1..Len(result) :
             /\ result[r].vehicles = vehicles
             /\ result[r].auction_date = auction_date_val
             /\ result[r].auction_name = auction_name

\* C3 (amended): the fallback path is run exactly for the documents on which
\* no strategy returned a table on any page; for every other document the
\* vehicles of the table path, none included, are returned as they are; in
\* both cases the result carries the metadata and the vehicles and no error
\* is raised.
C3_FallbackTrigger == [][C3_FallbackStep]_vars /\ []C3_NoError

\* tables without a usable header were extracted, the text names a maker,
\* and parse_auction_sheet returned no vehicle
C3_Witness ==
    /\ pc = "returned"
    /\ ~NoTableOnAnyPage
    /\ result[1].vehicles = <<>>
    /\ FallbackOfText # <<>>

\* C4: on each page both strategies are tried in order and the candidate
\* tables are the concatenation of what they returned, a strategy that
\* raises counting for no table; no error reaches the caller, every
\* collected table is taken up before the next page, and the loop visits
\* every page.
C4_Strategies ==
    /\ (pc = "extract" /\ ts = 1) => tables = <<>>
    /\ (pc = "extract" /\ ts = 2) => tables = StrategyTables(page_no, 1)
    /\ pc = "page_tables" =>
         tables = StrategyTables(page_no, 1) \o StrategyTables(page_no, 2)
    /\ pdf_valid => raised = 0
    /\ (pdf_valid /\ AfterPageLoop) => (page_no = Len(pages) /\ tables = <<>>)

\* the first strategy raised on page 1, the second one's table gave a
\* vehicle, and page 2 gave another
C4_Witness ==
    /\ pc = "fallback"
    /\ Len(pages) >= 2
    /\ pages[1].tables[1].raises /\ StrategyTables(1, 2) # <<>>
    /\ Len(vehicles) >= 2

\* the table SpecTable starts from
TheTable == pages[1].tables[1].value[1]

\* the header candidates of a table: its first min(3, number of rows) rows
Candidates(tbl) == 1..(IF Len(tbl) < 3 THEN Len(tbl) ELSE 3)

\* the columns of row i of tbl that match a canonical field, and the
\* distinct fields they match
MatchedColumns(tbl, i) == Cardinality(DOMAIN normalize_header_row(StripRow(tbl[i])))

MatchedFields(tbl, i) ==
    LET m == normalize_header_row(StripRow(tbl[i]))
    IN  Cardinality({ m[c] : c \in DOMAIN m })

\* the earliest candidate row of tbl of greatest count, 0 when every count is 0
EarliestBest(tbl, Count(_, _)) ==
    LET counts == [i \in Candidates(tbl) |-> Count(tbl, i)]
        best   == MaxOf({ counts[i] : i \in Candidates(tbl) })
    IN  IF best = 0 THEN 0
        ELSE MinOf({ i \in Candidates(tbl) : counts[i] = best })

\* the step that takes up a table of two rows or more makes the candidate
\* row `chosen` its header, and skips the table when chosen is 0
SelectsHeader(chosen) ==
    IF chosen = 0
    THEN pc' # "rows" /\ vehicles' = vehicles
    ELSE /\ header_row_idx' = chosen - 1
         /\ header_map' = normalize_header_row(StripRow(Head(tables)[chosen]))
         /\ data_rows' = SubSeq(Head(tables), chosen + 1, Len(Head(tables)))

\* the header chosen for a table stays while its rows are processed
HeaderKept == pc # "table" => UNCHANGED <<header_row_idx, header_map>>

\* header selection by the count of distinct matched fields
C5_StepAsStated ==
    (pc = "table" /\ Len(Head(tables)) >= 2) =>
        SelectsHeader(EarliestBest(Head(tables), MatchedFields))

C5_Step ==
    (pc = "table" /\ Len(Head(tables)) >= 2) =>
        SelectsHeader(EarliestBest(Head(tables), MatchedColumns))

C6_MergeStep ==
    (pc = "rows" /\ subs # <<>>) =>
        LET sub == _strip_noise_row(Head(subs))
            n   == Len(norm_rows)
        IN  (/\ \E i \in 1..Len(sub) : sub[i] # <<>>
             /\ is_fragment_row(sub)
             /\ n > 0)
            => /\ Len(norm_rows') = n
               /\ \A i \in 1..(n - 1) : norm_rows'[i] = norm_rows[i]
               /\ norm_rows'[n] = merge_fragment_row(norm_rows[n], sub)

\* every vehicle is made of a retained row, at most one of each row
C6_VehiclesOfRetainedRows ==
    /\ Len(vehicles) <= row_i
    /\ \A i \in 1..Len(vehicles) :
         \E j \in 1..row_i : vehicles[i]["raw_extracted_json"].row = norm_rows[j]

\* C6: a non-empty row detected as a fragment while a retained row precedes
\* it is merged into the last retained row: the retained rows do not grow
\* in number, the earlier ones are unchanged, and every vehicle record is
\* made of a retained row, at most one of each.
C6_FragmentMerge == [][C6_MergeStep]_vars /\ []C6_VehiclesOfRetainedRows

\* the fragment row タ was merged into the row before it, which gave
\* the one vehicle of the table
C6_Witness ==
    /\ pc = "fallback"
    /\ TheTable = << HDR_FULL, ROW_FULL, ROW_FRAGMENT >>
    /\ Len(norm_rows) = 1
    /\ norm_rows[1][2] = <<"ホ", "ン", "ダ", "タ">>
    /\ Len(vehicles) = 1

\* a 1-3 character katakana-only token (after trimming and NFKC)
ShortKatakanaToken(cell) ==
    LET t == NFKC(Strip(cell))
    IN  Len(t) \in 1..3 /\ \A i \in 1..Len(t) : t[i] \in KatakanaBlock

NonEmptyCells(row) == Cardinality({ i \in 1..Len(row) : Strip(row[i]) # <<>> })

Column(row, i) == IF i <= Len(row) THEN row[i] ELSE <<>>

\* C8: merge_fragment_row(prev, frag) has max(len(prev), len(frag)) columns;
\* in each column, if one side is empty the result is the other side; else
\* if either side is a short katakana fragment it is prev directly followed
\* by frag; else if frag is not contained in prev it is prev, a space, frag;
\* else it is prev. (prev itself is an argument the call leaves as it was.)
C8_ColumnwiseMerge ==
    call.fn = "merge_fragment_row" =>
        LET prev == call.args[2]
            frag == call.args[3]
            out  == call.result
        IN  /\ Len(out) = (IF Len(prev) > Len(frag) THEN Len(prev) ELSE Len(frag))
            /\ \A i \in 1..Len(out) :
                 LET a == Column(prev, i)
                     b == Column(frag, i)
                 IN  out[i] =
                       (IF a = <<>> THEN b
                        ELSE IF b = <<>> THEN a
                        ELSE IF ShortKatakanaToken(a) \/ ShortKatakanaToken(b) THEN a \o b
                        ELSE IF ~Contains(b, a) THEN a \o <<" ">> \o b
                        ELSE a)

\* トヨ + タ joined directly, 4WD found in 4WD AT, and a longer frag
C8_Witness ==
    /\ call.fn = "merge_fragment_row"
    /\ call.args[2] = << <<"ト", "ヨ">> >>
    /\ call.args[3] = << <<"タ">>, <<"4", "W", "D">> >>
    /\ call.result = << <<"ト", "ヨ", "タ">>, <<"4", "W", "D">> >>

HasLineBreak(cell) == \E i \in 1..Len(cell) : cell[i] \in LineBreaks

\* explode_stacked_row(row) = out, where Line(l) is what a cell of an
\* emitted row holds of the line l of the input cell
ExplodedAs(row, out, Line(_)) ==
    IF \E j \in 1..Len(row) : HasLineBreak(row[j])
    THEN /\ Len(out) = MaxOf({ Len(splitlines(row[j])) : j \in 1..Len(row) })
         /\ \A i \in 1..Len(out) :
              /\ Len(out[i]) = Len(row)
              /\ \A j \in 1..Len(row) :
                   out[i][j] = (IF i <= Len(splitlines(row[j]))
                                THEN Line(splitlines(row[j])[i]) ELSE <<>>)
    ELSE out = <<row>>

SameLine(l) == l

\* C9 (as stated): for a row with a cell that holds a line break,
\* explode_stacked_row emits as many rows as the greatest number of lines
\* of a cell, each with the columns of the input; emitted row i holds line
\* i of each cell, the empty string where the cell has fewer lines; a row
\* without a line break is emitted once, unchanged.
C9_AsStated ==
    call.fn = "explode_stacked_row" => ExplodedAs(call.args[2], call.result, SameLine)

\* C9 (amended): the same, but emitted row i holds line i of each cell with
\* the white space around the line removed.
C9_Explode ==
    call.fn = "explode_stacked_row" => ExplodedAs(call.args[2], call.result, Strip)

\* three rows of a cell of three lines, the white space around a line
\* removed and the shorter cell filled with empty strings
C9_Witness ==
    /\ call.fn = "explode_stacked_row"
    /\ call.args[2] = << <<"a", " ", "\n", " ", "b", "\n", "c">>, <<"a", "\n", "b">> >>
    /\ call.result = << << <<"a">>, <<"a">> >>, << <<"b">>, <<"b">> >>, << <<"c">>, <<>> >> >>

\* the maker and the car name of v are those the coercion of its row gave
KeepsCoerced(v, row) ==
    LET c == coerce_row_to_vehicle(row, header_map)
    IN  NonEmptyField(c, "maker") =>
            /\ Get(v, "maker") = c["maker"]
            /\ Get(v, "car_name") = Get(c, "car_name")

\* C10: for a row whose header-mapped maker cell is non-empty after
\* coercion, the record keeps that maker and its coerced car_name through
\* the row-cell salvage and the car-name-prefix split, and so does the
\* vehicle retained.
C10_MakerKept ==
    /\ pc \in { "salvage_cells", "salvage_prefix", "min_field" } =>
         KeepsCoerced(vehicle, norm_rows[row_i])
    /\ \A i \in 1..Len(vehicles) :
         KeepsCoerced(vehicles[i], vehicles[i]["raw_extracted_json"].row)

\* a retained vehicle of maker ホンダ whose car name トヨタアクア starts
\* with the name of another maker
C10_Witness ==
    /\ pc = "fallback"
    /\ \E i \in 1..Len(vehicles) :
         /\ Get(vehicles[i], "maker") = <<"ホ", "ン", "ダ">>
         /\ Get(vehicles[i], "car_name") = <<"ト", "ヨ", "タ", "ア", "ク", "ア">>

\* SpecSalvage: the row salvage_maker_from_row_cells worked on, noise removed
SalvagedRow == _strip_noise_row(call.args[Len(call.args)])

\* row[:n] with None read as ""
LeadCells(row, n) == [i \in 1..(IF Len(row) < n THEN Len(row) ELSE n) |-> OrEmpty(row[i])]

\* the first six cells concatenated, lot number stripped, normalised
HeadNorm(row) == _norm_jp(_strip_leading_lot_tokens(z2h(Join(LeadCells(row, 6)))))

\* the non-empty cells of the whole row joined by spaces, lot number
\* stripped, normalised
AllNorm(row) ==
    _norm_jp(_strip_leading_lot_tokens(z2h(Strip(JoinWith(<<" ">>, SelectSeq(row, LAMBDA c : c # <<>>))))))

NoMaker == [mk |-> None, car_rest |-> None]

\* what each of the five strategies finds in the row, in the stated order
StrategyResults(row) ==
    << [mk |-> FragmentJoin(LeadCells(row, 6)), car_rest |-> None],
       MakerContained(HeadNorm(row)),
       [mk |-> FragmentJoin(LeadCells(row, 5)), car_rest |-> None],
       MakerContained(AllNorm(row)),
       [mk |-> WindowSalvage(HeadNorm(row)), car_rest |-> None] >>

\* the result of the first strategy that succeeds, no maker when none does
FirstSuccess(found) ==
    LET ok == { k \in 1..Len(found) : found[k].mk # None }
    IN  IF ok = {} THEN NoMaker ELSE found[MinOf(ok)]

BlankRow(row) == \A i \in 1..Len(row) : Strip(OrEmpty(row[i])) = <<>>

\* C11: salvage_maker_from_row_cells returns the result of the first of its
\* five strategies, in the stated order, that finds a maker, and no maker
\* when none does or the row is blank; when a fragment pair is among the
\* first six cells the fragment-join maker is returned without a remainder,
\* whatever maker name the cells contain; and a remainder is returned only
\* when the containment strategy 2 or 4 found the maker.
C11_StrategyOrder ==
    call.fn = "salvage_maker_from_row_cells" =>
        /\ call.result = (IF BlankRow(SalvagedRow) THEN NoMaker
                          ELSE FirstSuccess(StrategyResults(SalvagedRow)))
        /\ FragmentJoin(LeadCells(SalvagedRow, 6)) # None =>
              call.result = [mk |-> FragmentJoin(LeadCells(SalvagedRow, 6)), car_rest |-> None]
        /\ call.result.car_rest # None =>
              /\ FragmentJoin(LeadCells(SalvagedRow, 6)) = None
              /\ call.result \in { MakerContained(HeadNorm(SalvagedRow)),
                                   MakerContained(AllNorm(SalvagedRow)) }

\* a fragment pair and the maker name ホンダ are both in the first six cells,
\* and the fragment join decided
C11_Witness ==
    /\ call.fn = "salvage_maker_from_row_cells"
    /\ Contains(<<"ホ", "ン", "ダ">>, HeadNorm(SalvagedRow))
    /\ FragmentJoin(LeadCells(SalvagedRow, 6)) # None
    /\ call.result = [mk |-> <<"ト", "ヨ", "タ">>, car_rest |-> None]

\* ["", "トヨ", "タ アクア", ""]
ROW_SPLIT_MAKER ==
    << <<>>, <<"ト", "ヨ">>, <<"タ", " ", "ア", "ク", "ア">>, <<>> >>

\* C12 (as stated): for the row ["", "トヨ", "タ アクア", ""] salvage returns the
\* maker トヨタ with the car-name candidate アクア, so that a record with an
\* empty car_name gets the car_name アクア.
C12_AsStated ==
    /\ (call.fn = "salvage_maker_from_row_cells" /\ call.args[2] = ROW_SPLIT_MAKER) =>
          call.result = [mk |-> <<"ト", "ヨ", "タ">>, car_rest |-> <<"ア", "ク", "ア">>]
    /\ (call.fn = "salvage_step" /\ call.args[3] = ROW_SPLIT_MAKER
           /\ ~Truthy(Get(call.args[2], "car_name"))) =>
          Get(call.result, "car_name") = <<"ア", "ク", "ア">>

\* C12 (amended): when a maker name is split over two adjacent cells among
\* the first six, the salvage step gives a record without a maker the
\* canonical maker of the pair and leaves its car_name as it was, further
\* text in the second cell or not; for the row ["", "トヨ", "タ アクア", ""]
\* the maker is トヨタ, no car-name candidate is returned, and a record with
\* an empty car_name keeps it empty.
C12_FragmentJoinNoLeftover ==
    /\ (call.fn = "salvage_step" /\ ~Truthy(Get(call.args[2], "maker"))
           /\ FragmentJoin(LeadCells(SalvagedRow, 6)) # None) =>
          /\ call.result["maker"] = FragmentJoin(LeadCells(SalvagedRow, 6))
          /\ Get(call.result, "car_name") = Get(call.args[2], "car_name")
          /\ DOMAIN call.result = DOMAIN call.args[2] \cup { "maker" }
    /\ (call.fn = "salvage_maker_from_row_cells" /\ call.args[2] = ROW_SPLIT_MAKER) =>
          call.result = [mk |-> <<"ト", "ヨ", "タ">>, car_rest |-> None]
    /\ (call.fn = "salvage_step" /\ call.args[3] = ROW_SPLIT_MAKER
           /\ ~Truthy(Get(call.args[2], "maker"))) =>
          /\ call.result["maker"] = <<"ト", "ヨ", "タ">>
          /\ ~Truthy(Get(call.args[2], "car_name")) => ~Truthy(Get(call.result, "car_name"))

\* the salvage step worked on ["", "トヨ", "タ アクア", ""] for a record with an
\* empty car_name and no maker
C12_Witness ==
    /\ call.fn = "salvage_step"
    /\ call.args[3] = ROW_SPLIT_MAKER
    /\ call.args[2] = [k \in { "car_name" } |-> <<>>]
    /\ call.result = [k \in { "car_name", "maker" } |->
                        IF k = "maker" THEN <<"ト", "ヨ", "タ">> ELSE <<>>]

\* the known makers whose normalised name starts with the window w
MakersStartingWith(w) ==
    { mk \in { KNOWN_MAKERS[k] : k \in 1..Len(KNOWN_MAKERS) } : StartsWith(NFKC(mk), w) }

\* the maker of w when exactly one known maker starts with it, else None
OnlyMaker(w) ==
    IF Cardinality(MakersStartingWith(w)) = 1
    THEN CHOOSE mk \in MakersStartingWith(w) : TRUE ELSE None

\* the maker of the window w, or failing that of its devoiced form
OnlyMakerOrDevoiced(w) ==
    IF OnlyMaker(w) # None THEN OnlyMaker(w) ELSE OnlyMaker(_devoice_katakana(w))

\* the windows strategy 5 tries, in the order it tries them: the first six
\* windows of three kana or kanji of the joined first six cells, then the
\* first six of two
WindowsOf(tokens, n) ==
    [i \in 1..(IF Len(tokens) - n + 1 < 0 THEN 0
               ELSE IF Len(tokens) - n + 1 > 6 THEN 6 ELSE Len(tokens) - n + 1)
       |-> SubSeq(tokens, i, i + n - 1)]

WindowsTried(row) ==
    LET tokens == SelectSeq(HeadNorm(row), LAMBDA c : c \in KatakanaBlock \cup KanjiChars)
    IN  WindowsOf(tokens, 3) \o WindowsOf(tokens, 2)

\* strategy 5 is reached: the row is not blank and no earlier strategy
\* found a maker
WindowReached(row) ==
    /\ ~BlankRow(row)
    /\ FragmentJoin(LeadCells(row, 6)) = None
    /\ MakerContained(HeadNorm(row)).mk = None
    /\ MakerContained(AllNorm(row)).mk = None

\* the maker of the first window of ws that Maker(_) accepts, None when none is
FirstAccepted(ws, Maker(_)) ==
    LET ok == { i \in 1..Len(ws) : Maker(ws[i]) # None }
    IN  IF ok = {} THEN None ELSE Maker(ws[MinOf(ok)])

\* _complete_maker_prefix gives a maker exactly for the windows that exactly
\* one known maker starts with
CompletesOnlyMaker ==
    call.fn = "_complete_maker_prefix" => call.result = OnlyMaker(call.args[2])

\* C13 (as stated): strategy 5 resolves the maker of the first window, all
\* windows of three characters before any of two, that exactly one known
\* maker's normalised name starts with; a window that two or more known
\* makers start with (三菱) and a window that no known maker starts with
\* resolve nothing.
C13_AsStated ==
    /\ CompletesOnlyMaker
    /\ (call.fn = "salvage_maker_from_row_cells" /\ WindowReached(SalvagedRow)) =>
          call.result.mk = FirstAccepted(WindowsTried(SalvagedRow), OnlyMaker)

\* C13 (amended): strategy 5 tries the first six windows of three characters
\* before the first six of two and resolves the maker of the first window
\* that exactly one known maker's normalised name starts with, either as the
\* window stands or, failing that, with its voiced kana devoiced; a window
\* that two or more known makers start with (三菱), and a window that no
\* known maker starts with in either form, resolve nothing.
C13_Window ==
    /\ CompletesOnlyMaker
    /\ (call.fn = "salvage_maker_from_row_cells" /\ WindowReached(SalvagedRow)) =>
          /\ call.result.mk = FirstAccepted(WindowsTried(SalvagedRow), OnlyMakerOrDevoiced)
          /\ call.result.car_rest = None

\* the window of three characters フォル decided although the window of two
\* ドヨ comes earlier in the text and resolves another maker
C13_Witness ==
    /\ call.fn = "salvage_maker_from_row_cells"
    /\ WindowReached(SalvagedRow)
    /\ Len(WindowsTried(SalvagedRow)) > 1
    /\ WindowsTried(SalvagedRow)[1] # <<"フ", "ォ", "ル">>
    /\ OnlyMakerOrDevoiced(SubSeq(HeadNorm(SalvagedRow), 1, 2)) = <<"ト", "ヨ", "タ">>
    /\ call.result.mk = OnlyMaker(<<"フ", "ォ", "ル">>)

\* the car name of the dict v as the prefix split compares it: trimmed,
\* width- and NFKC-normalised, white space removed
NameNorm(v) == _norm_jp(z2h(Strip(OrEmpty(Get(v, "car_name")))))

\* the known makers the car name of v starts with, as it stands or devoiced,
\* by their position in KNOWN_MAKERS
MakersLeading(v) ==
    { k \in 1..Len(KNOWN_MAKERS) :
        \/ StartsWith(NameNorm(v), NFKC(KNOWN_MAKERS[k]))
        \/ StartsWith(_devoice_katakana(NameNorm(v)), NFKC(KNOWN_MAKERS[k])) }

\* the prefix split applies to v: no maker yet, and a known maker leads the name
SplitApplies(v) == ~Truthy(Get(v, "maker")) /\ MakersLeading(v) # {}

\* what the car name leaves after the maker mk
RestAfter(v, mk) == Strip(Suffix(NameNorm(v), Len(NFKC(mk))))

\* the dicts v and w agree on every key but those of ks
SameBut(v, w, ks) ==
    /\ DOMAIN w \ ks = DOMAIN v \ ks
    /\ \A k \in DOMAIN v \ ks : w[k] = v[k]

\* C14 (as stated): when the maker was empty and the car name starts with a
\* known maker name, compared normally or after devoicing, maker is that
\* maker and car_name is the remainder of the name after the maker prefix;
\* in every other case the record is unchanged.
C14_AsStated ==
    call.fn = "salvage_maker_from_car_name_prefix" =>
        IF SplitApplies(call.args[2])
        THEN /\ \E k \in MakersLeading(call.args[2]) : call.result["maker"] = KNOWN_MAKERS[k]
             /\ call.result["car_name"] = RestAfter(call.args[2], call.result["maker"])
        ELSE call.result = call.args[2]

\* C14 (amended): when the maker was empty and the normalised car name starts
\* with a known maker name, compared normally or after devoicing, maker is
\* the first such maker in the order of KNOWN_MAKERS and car_name is the
\* remainder of the normalised name after the maker prefix when there is
\* one, and unchanged when nothing remains; no other field changes; in
\* every other case the record is unchanged.
C14_PrefixSplit ==
    call.fn = "salvage_maker_from_car_name_prefix" =>
        IF SplitApplies(call.args[2])
        THEN /\ call.result["maker"] = KNOWN_MAKERS[MinOf(MakersLeading(call.args[2]))]
             /\ call.result["car_name"] =
                    (IF RestAfter(call.args[2], call.result["maker"]) # <<>>
                     THEN RestAfter(call.args[2], call.result["maker"])
                     ELSE call.args[2]["car_name"])
             /\ SameBut(call.args[2], call.result, { "maker", "car_name" })
        ELSE call.result = call.args[2]

\* the car name ホンダ is the maker name and nothing else: the maker is set
\* and the car name stays
C14_Witness ==
    /\ call.fn = "salvage_maker_from_car_name_prefix"
    /\ ~Truthy(Get(call.args[2], "maker"))
    /\ Get(call.args[2], "car_name") = <<"ホ", "ン", "ダ">>
    /\ call.result["maker"] = <<"ホ", "ン", "ダ">>
    /\ call.result["car_name"] = <<"ホ", "ン", "ダ">>

\* what to_int_or_none keeps of the text s: its digits and minus signs, width-normalised
KeptChars(s) == SelectSeq(z2h(s), LAMBDA c : IsDigit(c) \/ c = "-")

\* the digit sequence of s
DigitsOf(s) == SelectSeq(z2h(s), LAMBDA c : IsDigit(c))

\* a minus sign is kept somewhere else than in front
MinusMisplaced(s) == \E i \in 2..Len(KeptChars(s)) : KeptChars(s)[i] = "-"

Abs(n) == IF n < 0 THEN 0 - n ELSE n

\* C15 (as stated): to_int_or_none returns no value exactly when the text
\* has no digit, and otherwise an integer whose digits are the digit
\* sequence of the text, modulo sign and leading zeros.
C15_AsStated ==
    call.fn = "to_int_or_none" =>
        /\ call.result = NoInt <=> DigitsOf(call.args[2]) = <<>>
        /\ call.result # NoInt => Abs(call.result[1]) = DigitsValue(DigitsOf(call.args[2]))

\* C15 (amended): to_int_or_none reduces the text to its digits and minus
\* signs; it returns no value exactly when no digit remains or a minus sign
\* remains anywhere but in front, and otherwise the integer of the digit
\* sequence (leading zeros dropped), negative exactly when what remains
\* starts with a minus sign and the value is not zero; absent input gives
\* no value.
C15_Integer ==
    call.fn = "to_int_or_none" =>
        /\ call.result = NoInt <=>
              (DigitsOf(call.args[2]) = <<>> \/ MinusMisplaced(call.args[2]))
        /\ call.result # NoInt =>
              /\ Abs(call.result[1]) = DigitsValue(DigitsOf(call.args[2]))
              /\ call.result[1] < 0 <=>
                    (KeptChars(call.args[2])[1] = "-" /\ DigitsValue(DigitsOf(call.args[2])) > 0)

\* a text with a minus sign between or after its digits gave no value
C15_Witness ==
    /\ call.fn = "to_int_or_none"
    /\ DigitsOf(call.args[2]) # <<>>
    /\ MinusMisplaced(call.args[2])
    /\ call.result = NoInt

\* the cell s width-normalised, its commas dropped
CommaFree(s) == SelectSeq(z2h(s), LAMBDA c : c # ",")

\* the first run of digits of the text t, nine of them at most
LeadingRun(t) ==
    LET from == MinOf({ i \in 1..Len(t) : IsDigit(t[i]) })
        upto == MaxOf({ j \in from..Len(t) :
                          j < from + 9 /\ \A k \in from..j : IsDigit(t[k]) })
    IN  SubSeq(t, from, upto)

HasDigit(t) == \E i \in 1..Len(t) : IsDigit(t[i])

ReiwaMarkers == { <<"R">>, <<"U+4EE4", "U+548C">> }

HeiseiMarkers == { <<"H">>, <<"U+5E73", "U+6210">> }

\* the cell is one of the markers followed by the era year in digits
EraCell(cell, markers) ==
    \E mk \in markers :
        /\ StartsWith(cell, mk) /\ Len(cell) > Len(mk)
        /\ \A i \in (Len(mk) + 1)..Len(cell) : IsDigit(cell[i])

\* the era year of such a cell
EraYear(cell) == DigitsValue(SelectSeq(cell, LAMBDA c : IsDigit(c)))

\* C17: a cell of the year column that carries a Reiwa marker with era-year
\* n yields the year 2018 + n, one that carries a Heisei marker with
\* era-year n yields 1988 + n (the cell "H20" yields 2008), and a cell
\* without an era marker yields its plain integer parse.
C17_EraYear ==
    call.fn = "coerce_year" =>
        /\ EraCell(z2h(call.args[2]), ReiwaMarkers) =>
              call.result = SomeInt(2018 + EraYear(z2h(call.args[2])))
        /\ EraCell(z2h(call.args[2]), HeiseiMarkers) =>
              call.result = SomeInt(1988 + EraYear(z2h(call.args[2])))
        /\ call.args[2] = <<"H", "2", "0">> => call.result = SomeInt(2008)
        /\ (\A i \in 1..Len(OrEmpty(call.args[2])) : IsDigit(call.args[2][i])) =>
              call.result = to_int_or_none(call.args[2])

\* 令和6年5月 and 平成31年4月
DATE_REIWA == <<"U+4EE4", "U+548C", "6", "U+5E74", "5", "U+6708">>

DATE_HEISEI == <<"U+5E73", "U+6210", "3", "1", "U+5E74", "4", "U+6708">>

\* the ISO-like dates of DateParts that are dates: 2024/5/1, 2024-05-01
IsoDates == { <<"2", "0", "2", "4", "/", "5", "/", "1">>, <<"2", "0", "2", "4", "-", "0", "5", "-", "0", "1">> }

\* ... and those that are not: 2024/13/40, 2024/2/30
IsoNonDates == { <<"2", "0", "2", "4", "/", "1", "3", "/", "4", "0">>, <<"2", "0", "2", "4", "/", "2", "/", "3", "0">> }

\* C18: parse_auction_date looks for an ISO-like year/month/day first and
\* for an era date only then; an era date is converted with the base 2018
\* for Reiwa and 1988 for Heisei and its day is 1, so that 令和6年5月 gives
\* 2024-05-01 and 平成31年4月 gives 2019-04-01; a text without a date pattern
\* gives no date.
C18_DocumentDate ==
    call.fn = "parse_auction_date" =>
        /\ call.args[2] = DATE_REIWA \o <<" ">> => call.result = <<2024, 5, 1>>
        /\ call.args[2] = DATE_HEISEI \o <<" ">> => call.result = <<2019, 4, 1>>
        /\ ((\E d \in IsoDates : Contains(d, call.args[2]))
              /\ \A d \in IsoNonDates : ~Contains(d, call.args[2])) =>
              call.result = <<2024, 5, 1>>
        /\ (\A i \in 1..Len(call.args[2]) : ~IsDigit(call.args[2][i])) => call.result = NoDate
        /\ (call.result # NoDate /\ \A d \in IsoDates : ~Contains(d, call.args[2])) =>
              call.result[3] = 1

\* C19: width normalisation is idempotent: z2h applied to what z2h returned,
\* for any text and for absent input, returns it unchanged.
C19_Idempotent ==
    (call.fn = "z2h" /\ Len(call.result) = 2) => call.result[2] = call.result[1]

\* z2h changed a text with a full-width character and white space around
\* it, and was applied again
C19_Witness ==
    /\ call.fn = "z2h" /\ Len(call.result) = 2
    /\ call.args[2] # None
    /\ \E i \in 1..Len(call.args[2]) : call.args[2][i] \in DOMAIN ZEN2HAN
    /\ Len(call.args[2]) > 1 /\ IsSpace(call.args[2][1])
    /\ call.result[1] # call.args[2]
    /\ call.result[1] # <<>>

\* ------------------------------------------------------------------------
\* C20: calls of the parser do not interact
\* ------------------------------------------------------------------------

\* the rows of the data rows of a table, stacked cells exploded
RECURSIVE ExplodedRows(_)
ExplodedRows(rows) ==
    IF rows = <<>> THEN <<>>
    ELSE explode_stacked_row(StripRow(Head(rows))) \o ExplodedRows(Tail(rows))

\* norm_rows of a table: the exploded rows, blank ones dropped and fragment
\* rows merged
RECURSIVE ReconstructedRows(_, _)
ReconstructedRows(rows, exploded) ==
    IF exploded = <<>> THEN rows
    ELSE ReconstructedRows(ReconstructStep(rows, Head(exploded)), Tail(exploded))

\* vehicles after the rows of one table: each row coerced, its maker salvaged,
\* and retained if it has a minimum field
RECURSIVE VehiclesOfRows(_, _, _)
VehiclesOfRows(vs, rows, hmap) ==
    IF rows = <<>> THEN vs
    ELSE VehiclesOfRows(
             Retain(vs,
                    salvage_maker_from_car_name_prefix(
                        SalvageFromCells(coerce_row_to_vehicle(Head(rows), hmap),
                                         Head(rows))),
                    Head(rows)),
             Tail(rows), hmap)

\* vehicles after a table whose header detection gave h
VehiclesOfHeader(vs, tbl, h) ==
    IF DOMAIN h.header_map = {} THEN vs
    ELSE VehiclesOfRows(vs,
             ReconstructedRows(<<>>,
                 ExplodedRows(SubSeq(tbl, h.header_row_idx + 2, Len(tbl)))),
             h.header_map)

\* vehicles after the tables tbls
RECURSIVE VehiclesOfTables(_, _)
VehiclesOfTables(vs, tbls) ==
    IF tbls = <<>> THEN vs
    ELSE VehiclesOfTables(
             IF Len(Head(tbls)) < 2 THEN vs
             ELSE VehiclesOfHeader(vs, Head(tbls), DetectHeader(Head(tbls))),
             Tail(tbls))

\* the tables of the document, page after page, both strategies of a page
RECURSIVE TablesOfDocument(_)
TablesOfDocument(doc) ==
    IF doc = <<>> THEN <<>>
    ELSE CollectTables(CollectTables(<<>>, Head(doc).tables[1]), Head(doc).tables[2])
             \o TablesOfDocument(Tail(doc))

\* the texts of the pages, "" for a page whose extract_text raises
TextsOfDocument(doc) ==
    [p \in 1..Len(doc) |-> IF doc[p].text.raises THEN <<>> ELSE doc[p].text.value]

\* the returned dict, given the venue name and the sale date of the text and
\* the vehicles vs of the tables tbls: the text fallback and the file-name
\* fallback applied
AssembleAlone(doc, fname, name, sale_date, tbls, vs) ==
    [ file_name |-> fname,
      auction_name |-> IF ~Truthy(name) /\ Contains(<<"u", "s", "s">>, Lower(fname))
                       THEN <<"U", "S", "S">> ELSE name,
      auction_date |-> sale_date,
      vehicles |-> IF FallbackRuns(tbls # <<>>, vs)
                   THEN FallbackVehicles(group_records(AllLines(TextsOfDocument(doc))))
                   ELSE vs ]

\* the dict parse_auction_sheet returns for the document and file name when
\* no other call runs
ParseAlone(doc, fname) ==
    AssembleAlone(doc, fname,
                  VenueName(JoinWith(<<"\n">>, TextsOfDocument(doc))),
                  parse_auction_date(JoinWith(<<"\n">>, TextsOfDocument(doc))),
                  TablesOfDocument(doc),
                  VehiclesOfTables(<<>>, TablesOfDocument(doc)))

\* what a finished call holds when it ran alone: one dict, or the exception
\* of pdfplumber.open
AloneOutcome(frame) ==
    IF frame.pdf_valid
    THEN [pc |-> "returned", raised |-> 0,
          result |-> << ParseAlone(frame.pages, frame.filename) >>]
    ELSE [pc |-> "raised", raised |-> 1, result |-> <<>>]

\* a finished call ended as it ends alone
AsAlone(frame) ==
    Finished(frame) =>
        /\ frame.pc = AloneOutcome(frame).pc
        /\ frame.raised = AloneOutcome(frame).raised
        /\ frame.result = AloneOutcome(frame).result

\* ParseAlone is the parser: the single call of Spec returns it
ParseAloneIsTheParser ==
    (call = NoCall /\ pc \in { "returned", "raised" }) => AsAlone(Frame)

\* C20: the parser holds no state that one call leaves to another: no step
\* writes a module-level table and the rest is local to the call. Of two calls
\* on two documents whose steps interleave, each ends with the result it gives when it runs alone.
C20_CallsIsolated ==
    call.fn = "parse_auction_sheet" => AsAlone(Frame) /\ AsAlone(call.result)

\* C20 witness: one call has returned its vehicles while the other is
\* suspended inside its row loop, the vehicle of its own row built and not
\* yet retained.
C20_Witness ==
    /\ call.fn = "parse_auction_sheet"
    /\ pc = "returned"
    /\ result[1].vehicles # <<>>
    /\ call.result.pc = "min_field"
    /\ Truthy(Get(call.result.vehicle, "maker"))
    /\ call.result.vehicles = <<>>
    /\ call.result.pages # pages

\* ------------------------------------------------------------------------
\* C21: the sheet and its vehicles are stored together or not at all
\* ------------------------------------------------------------------------

\* the rows upload_pdf adds for the dict the parser returned
RowsOfSheet(parsed) ==
    << [table |-> "auction_sheets", file_name |-> parsed.file_name,
        auction_name |-> parsed.auction_name, auction_date |-> parsed.auction_date] >>
    \o [i \in 1..Len(Expanded(parsed.vehicles)) |-> VehicleRow(Expanded(parsed.vehicles)[i])]

\* the request ended with an exception before its commit: of the parser
\* (400) or of a later statement (500). The response built after the commit
\* is not modelled
FailedBeforeCommit == http \in { 400, 500 }

\* C21: what is durably stored is nothing, or the sheet row followed by the
\* rows of all its vehicles; it is nothing while the request has not reached
\* its commit, after a parse failure, and after a step between the flush of
\* the sheet row and the commit failed; and when the session is closed no row
\* is left pending.
C21_AllOrNothing ==
    /\ committed # <<>> => (result # <<>> /\ committed = RowsOfSheet(result[1]))
    /\ (raised > 0 \/ FailedBeforeCommit) => committed = <<>>
    /\ http = 200 => (result # <<>> /\ committed = RowsOfSheet(result[1]))
    /\ pc = "closed" => session = <<>>

\* C21 witness: the request failed after the sheet row and a vehicle row were
\* flushed, with a vehicle still to add, and nothing is stored.
C21_Witness ==
    /\ pc = "done"
    /\ http = 500
    /\ Len(session) = 2
    /\ Len(result[1].vehicles) = 2
    /\ committed = <<>>

\* ------------------------------------------------------------------------
\* C22: the grouping of text lines
\* ------------------------------------------------------------------------

\* the lines as group_records looks at them
NormalizedLines(raw_lines) ==
    [i \in 1..Len(raw_lines) |-> _normalize_text_line(raw_lines[i])]

\* a blank line or a key-marker line
InNoGroup(line) == line = <<>> \/ KEY_LINE(line)

\* a line that opens the first group when no group has started
OpensFirstGroup(line) ==
    ~InNoGroup(line) /\ (LOT_START(line) \/ ~_is_option_only(line))

\* the position of the line with which the first group starts, beyond the
\* last line when no group starts
FirstStart(ls) ==
    IF \E i \in 1..Len(ls) : OpensFirstGroup(ls[i])
    THEN CHOOSE i \in 1..Len(ls) :
            OpensFirstGroup(ls[i]) /\ \A j \in 1..(i - 1) : ~OpensFirstGroup(ls[j])
    ELSE Len(ls) + 1

\* the positions of the lines that belong to a group
Grouped(ls) == { i \in FirstStart(ls)..Len(ls) : ~InNoGroup(ls[i]) }

\* the positions of the lines that begin a group
GroupHeads(ls) == { i \in Grouped(ls) : i = FirstStart(ls) \/ LOT_START(ls[i]) }

\* the position with k - 1 positions of ps before it
KthOf(ps, k) == CHOOSE p \in ps : Cardinality({ q \in ps : q < p }) = k - 1

\* the lines at the positions ps, in input order
LinesAt(ls, ps) == [k \in 1..Cardinality(ps) |-> ls[KthOf(ps, k)]]

\* the positions of the group that begins at h: the grouped lines from h to
\* the next line that begins a group
GroupFrom(ls, h) ==
    { i \in Grouped(ls) : i >= h /\ \A g \in GroupHeads(ls) : g > h => i < g }

\* the groups the claim describes: one per line that begins a group, in
\* input order, each the lines of the group joined by a space
GroupsOfLines(ls) ==
    [k \in 1..Cardinality(GroupHeads(ls)) |->
        JoinWith(<<" ">>, LinesAt(ls, GroupFrom(ls, KthOf(GroupHeads(ls), k))))]

LotStartLines(ls) == { i \in 1..Len(ls) : LOT_START(ls[i]) }

\* groups are the groups of the lines ls as the claim describes them
GroupedAsClaimed(ls, groups) ==
    /\ groups = GroupsOfLines(ls)
    /\ Len(groups) <= Cardinality(LotStartLines(ls)) + 1
    /\ \A k \in 2..Len(groups) : LOT_START(groups[k])
    /\ LotStartLines(ls) \subseteq GroupHeads(ls)

\* C22: group_records leaves blank and key-marker lines in no group, drops an
\* option-only line seen before any group has started, and puts every other
\* line in exactly one group, in input order; every lot-start line begins a
\* group, so there are at most as many groups as lot-start lines plus one and
\* only the first group can begin with a line that is not a lot-start line.
\* The lines are taken as _normalize_text_line leaves them.
C22_Grouping ==
    call.fn = "group_records" =>
        GroupedAsClaimed(NormalizedLines(call.args[2]), call.result)

\* C22 witness: an option-only line is dropped before any group has started,
\* an ordinary line begins the first group and a lot-start line the second.
C22_Witness ==
    /\ call.fn = "group_records"
    /\ Len(call.args[2]) = 3
    /\ _is_option_only(call.args[2][1])
    /\ ~LOT_START(call.args[2][2])
    /\ LOT_START(_normalize_text_line(call.args[2][3]))
    /\ Len(call.result) = 2

====
